---- MODULE Spec2Model ----
(***************************************************************************)
(* Obsidian 3D Graph: the graph derivation (Graph3DView.processVaultData,  *)
(* matchesFilter) and the update cycle (Graph3DView.updateData) of         *)
(* src/src/view.ts.                                                        *)
(*                                                                         *)
(* Strings are sequences of one-character strings, so that toLowerCase,    *)
(* trim, includes, startsWith and substring are computed, not assumed.     *)
(***************************************************************************)
EXTENDS Integers, Sequences, FiniteSets, TLC

\* ------------------------------------------------------------------ bounds

\* longest tag list of one document
MaxTags == 2
\* longest advanced filter rule list
MaxFilters == 2
\* most files the vault holds while the view runs
MaxVaultFiles == 2

\* ------------------------------------------------------------- JS strings

LowerChar(c) ==
    CASE c = "A" -> "a"
      [] c = "B" -> "b"
      [] c = "G" -> "g"
      [] c = "X" -> "x"
      [] OTHER -> c

toLowerCase(s) == IF s = <<>> THEN <<>> ELSE [i \in 1..Len(s) |-> LowerChar(s[i])]

includes(s, t) == \E i \in 0..(Len(s) - Len(t)) : SubSeq(s, i + 1, i + Len(t)) = t

startsWith(s, t) == Len(t) <= Len(s) /\ SubSeq(s, 1, Len(t)) = t

substring(s, n) == SubSeq(s, n + 1, Len(s))

RECURSIVE trimStart(_)
trimStart(s) == IF s # <<>> /\ Head(s) = " " THEN trimStart(Tail(s)) ELSE s

RECURSIVE trimEnd(_)
trimEnd(s) == IF s # <<>> /\ s[Len(s)] = " " THEN trimEnd(SubSeq(s, 1, Len(s) - 1)) ELSE s

trim(s) == trimEnd(trimStart(s))

\* ------------------------------------------------------------ JS arrays

\* insertion order of a JS Set / Map built from s: first occurrences only
RECURSIVE Dedupe(_)
Dedupe(s) ==
    IF s = <<>> THEN <<>>
    ELSE LET init == Dedupe(SubSeq(s, 1, Len(s) - 1))
             last == s[Len(s)]
         IN  IF \E i \in 1..Len(init) : init[i] = last THEN init ELSE Append(init, last)

Range(s) == {s[i] : i \in 1..Len(s)}

Ids(nodes) == {nodes[i].id : i \in 1..Len(nodes)}

\* ------------------------------------------------------------- the vault

\* the files a vault may hold (TFile: path, basename, name, extension)
DocA == [path |-> <<"A", ".", "m", "d">>, basename |-> <<"A">>,
         name |-> <<"A", ".", "m", "d">>, extension |-> "md"]
DocB == [path |-> <<"b", ".", "m", "d">>, basename |-> <<"b">>,
         name |-> <<"b", ".", "m", "d">>, extension |-> "md"]
Pic  == [path |-> <<"x", ".", "p", "n", "g">>, basename |-> <<"x">>,
         name |-> <<"x", ".", "p", "n", "g">>, extension |-> "png"]

FileUniverse == <<DocA, DocB, Pic>>

TagNames == {<<"X">>, <<"g">>}

\* the text of each document (only documents are read)
ContentOf(path) == IF path = DocA.path THEN <<"G", "o">> ELSE <<>>

NodeTypeFile == "File"
NodeTypeTag == "Tag"
NodeTypeAttachment == "Attachment"

SeqsUpTo(S, n) == UNION {[1..k -> S] : k \in 0..n}

\* ------------------------------------------------------------ variables

VARIABLES
    files,             \* app.vault.getFiles(): the files of the vault, in order
    fileTags,          \* metadataCache.getFileCache(file).tags, '#' stripped, per path
    resolvedLinks,     \* metadataCache.resolvedLinks: <<source path, target path>>
    hasResolvedLinks,  \* FALSE while metadataCache.resolvedLinks is absent
    settings,          \* this.settings: the fields processVaultData reads
    pc,                \* "input" / "derived" for the derivation on its own, "view" in the view
    derived,           \* what processVaultData last computed: its locals and its result
    isGraphInitialized, \* this.isGraphInitialized
    isUpdating,        \* this.isUpdating
    graphData,         \* this.graph.graphData(): the displayed nodes (with x, y, z) and links
    messageVisible,    \* messageEl carries the class 'is-visible'
    animating,         \* the graph's animation runs (resumeAnimation / pauseAnimation)
    cycles,            \* the updateData calls suspended at an await, with their locals
    firstLoadTimer,    \* the setTimeout of initializeGraph: "unset", "pending", "fired"
    lastEvent,         \* the latest step of updateData: a call "rejected" or "started",
                       \* a cycle ended "swapped", "empty" or "error"
    lastRegime,        \* the physics regime the cycle that ended last applied at its
                       \* swap; NoRegime once another cycle has started
    pendingCalls,      \* handlers that wrote their change and have yet to call updateData
    matchInput,        \* the node list and the rule list given to the filter stage alone
    matchResult,       \* what matchesFilter and the filter stage returned on them
    colorInput,        \* the node, the highlighted ids and the settings given to getNodeColor
    colorResult,       \* the color getNodeColor returned, NoColor before the call
    clickTimeout,      \* this.clickTimeout: NoTimer, or the timer and the node it holds
    selectedNode,      \* this.selectedNode: a node id or NoNode
    highlightedNodes,  \* this.highlightedNodes: a set of node ids
    highlightedLinks,  \* this.highlightedLinks: the displayed links it holds, by position
    clickLog,          \* the clicks handled and the actions they led to, counted
    graphHandlers,     \* the handlers registered on the graph instance in use (this.graph)
    nodeMeshes,        \* this.nodeMeshes: the material color of the mesh of each node id
    colorSettings,     \* this.settings: the fields getNodeColor and createNodeObject read
    paintLog           \* the ids of the nodes the last creation or refresh of colors handled

corpusVars == <<files, fileTags, resolvedLinks, hasResolvedLinks>>

viewVars == <<isGraphInitialized, isUpdating, graphData, messageVisible, animating, cycles,
              firstLoadTimer, lastEvent, lastRegime, graphHandlers>>

\* the state of the handlers around updateData
handlerVars == <<pendingCalls>>
matchVars == <<matchInput, matchResult>>
colorVars == <<colorInput, colorResult>>
clickVars == <<clickTimeout, selectedNode, highlightedNodes, highlightedLinks, clickLog>>
paintVars == <<nodeMeshes, colorSettings, paintLog>>
sideVars == <<handlerVars, matchVars, colorVars, clickVars, paintVars>>

vars == <<files, fileTags, resolvedLinks, hasResolvedLinks, settings, pc, derived,
          isGraphInitialized, isUpdating, graphData, messageVisible, animating, cycles,
          firstLoadTimer, lastEvent, lastRegime, pendingCalls, matchInput, matchResult,
          colorInput, colorResult, clickTimeout, selectedNode, highlightedNodes,
          highlightedLinks, clickLog, graphHandlers, nodeMeshes, colorSettings, paintLog>>

\* ------------------------------------------------- the click state (33-35, 48)

\* selectedNode = null; no node has the empty id
NoNode == <<>>

\* clickTimeout = null: no timer is held
NoTimer == [set |-> FALSE, node |-> NoNode, live |-> FALSE]

\* no click was handled and no action was taken
NoClickLog == [plain |-> 0, modified |-> 0, single |-> 0, double |-> 0, opened |-> 0,
               clicked |-> NoNode, singleOn |-> NoNode, doubleOn |-> NoNode]

\* (33-35, 48) the fields as the constructor leaves them
ClickAtRest ==
    /\ clickTimeout = NoTimer
    /\ selectedNode = NoNode
    /\ highlightedNodes = {}
    /\ highlightedLinks = {}
    /\ clickLog = NoClickLog

\* ------------------------------------- the graph instance and the meshes

\* (473-485) the handlers initializeGraph registers on the graph instance
InitialHandlers == {"onNodeClick", "onNodeHover", "linkCurvature", "onEngineTick"}

\* (584-590) the empty path destroys the instance and creates one with onNodeClick
handlersAfterEmpty(handlers) == {"onNodeClick"}

\* getNodeColor was not called
NoColor == "none"

\* (675) the fields of this.settings getNodeColor reads; the colors are those of
\* DEFAULT_SETTINGS
ColorSettings(useThemeColors, groups) ==
    [useThemeColors |-> useThemeColors, colorHighlight |-> "#FFB800",
     colorNode |-> "#2080F0", colorTag |-> "#9A49E8", colorAttachment |-> "#75B63A",
     groups |-> groups]

\* (30) nodeMeshes = new WeakMap(): no node has a mesh
NoMeshes == [id \in {} |-> NoColor]

\* no color was set on a material: the operation, the color getNodeColor gave for
\* each node it handled and the nodes for which color.set threw
NoPaintLog == [op |-> "none", resolved |-> NoMeshes, threw |-> {}]

\* no mesh exists, the color settings are the defaults, nothing was painted
PaintAtRest ==
    /\ nodeMeshes = NoMeshes
    /\ colorSettings = ColorSettings(TRUE, <<>>)
    /\ paintLog = NoPaintLog

\* ------------------------------------------------- matchesFilter (973-985)

NoMatchInput == [nodes |-> <<>>, filters |-> <<>>]
NoColorInput == [set |-> FALSE]
NoMatchResult == [done |-> FALSE, matches |-> <<>>, kept |-> <<>>]

\* mutant: the tags of the node are compared as written
matchesFilter_CaseSensitive(node, filter) ==
    LET filterValue == toLowerCase(trim(filter.value)) IN
    IF filterValue = <<>> THEN FALSE
    ELSE IF filter.type = "path" THEN includes(toLowerCase(node.id), filterValue)
    ELSE IF filter.type = "tag" THEN
        LET tagToMatch == IF startsWith(filterValue, <<"#">>)
                          THEN substring(filterValue, 1) ELSE filterValue
        IN  IF "tags" \in DOMAIN node
            THEN \E i \in 1..Len(node.tags) : node.tags[i] = tagToMatch
            ELSE FALSE
    ELSE FALSE

\* mutant: no early return on an empty value
matchesFilter_NoBlankGuard(node, filter) ==
    LET filterValue == toLowerCase(trim(filter.value)) IN
    IF filter.type = "path" THEN includes(toLowerCase(node.id), filterValue)
    ELSE IF filter.type = "tag" THEN
        LET tagToMatch == IF startsWith(filterValue, <<"#">>)
                          THEN substring(filterValue, 1) ELSE filterValue
        IN  IF "tags" \in DOMAIN node
            THEN \E i \in 1..Len(node.tags) : toLowerCase(node.tags[i]) = tagToMatch
            ELSE FALSE
    ELSE FALSE

matchesFilter(node, filter) ==
    LET filterValue == toLowerCase(trim(filter.value)) IN
    IF filterValue = <<>> THEN FALSE
    ELSE IF filter.type = "path" THEN includes(toLowerCase(node.id), filterValue)
    ELSE IF filter.type = "tag" THEN
        LET tagToMatch == IF startsWith(filterValue, <<"#">>)
                          THEN substring(filterValue, 1) ELSE filterValue
        IN  IF "tags" \in DOMAIN node
            THEN \E i \in 1..Len(node.tags) : toLowerCase(node.tags[i]) = tagToMatch
            ELSE FALSE
    ELSE FALSE

\* ---------------------------------------------- processVaultData (987-1092)

\* one iteration of the loop over allFiles: the node made from a file
fileNode(file, tags, content) ==
    LET type == IF file.extension = "md" THEN NodeTypeFile ELSE NodeTypeAttachment IN
    [id |-> file.path, name |-> file.basename, filename |-> file.name, type |-> type,
     tags |-> tags, content |-> IF type = NodeTypeFile THEN content ELSE <<>>]

\* Map.prototype.set: replaces the value of an existing key in place, else appends
mapSet(nodes, node) ==
    IF \E i \in 1..Len(nodes) : nodes[i].id = node.id
    THEN [i \in 1..Len(nodes) |-> IF nodes[i].id = node.id THEN node ELSE nodes[i]]
    ELSE Append(nodes, node)

\* the order in which 'for ... in resolvedLinks' visits the link table
LinkOrder == << <<DocA.path, DocB.path>>, <<DocA.path, Pic.path>>, <<DocB.path, DocA.path>> >>

baseLinks(rl) ==
    LET present == SelectSeq(LinkOrder, LAMBDA p : p \in rl) IN
    [i \in 1..Len(present) |-> [source |-> present[i][1], target |-> present[i][2]]]

tagId(tagName) == <<"t", "a", "g", ":">> \o tagName

tagNode(tagName) == [id |-> tagId(tagName), name |-> <<"#">> \o tagName, type |-> NodeTypeTag]

hasTagList(node) == node.type = NodeTypeFile /\ "tags" \in DOMAIN node

\* the tag names met by allNodesMap.forEach, one entry per occurrence
RECURSIVE tagOccurrences(_)
tagOccurrences(nodes) ==
    IF nodes = <<>> THEN <<>>
    ELSE (IF hasTagList(Head(nodes)) THEN Head(nodes).tags ELSE <<>>)
         \o tagOccurrences(Tail(nodes))

\* mutant: every tag link of a document goes to its first tag
RECURSIVE tagLinks_FirstTagOnly(_)
tagLinks_FirstTagOnly(nodes) ==
    IF nodes = <<>> THEN <<>>
    ELSE LET n == Head(nodes) IN
         (IF hasTagList(n)
          THEN [i \in 1..Len(n.tags) |-> [source |-> n.id, target |-> tagId(n.tags[1])]]
          ELSE <<>>)
         \o tagLinks_FirstTagOnly(Tail(nodes))

\* allLinks.push({source: node.id, target: tagId}) for every occurrence
RECURSIVE tagLinks(_)
tagLinks(nodes) ==
    IF nodes = <<>> THEN <<>>
    ELSE LET n == Head(nodes) IN
         (IF hasTagList(n)
          THEN [i \in 1..Len(n.tags) |-> [source |-> n.id, target |-> tagId(n.tags[i])]]
          ELSE <<>>)
         \o tagLinks(Tail(nodes))

RECURSIVE mapSetAll(_, _)
mapSetAll(nodes, more) ==
    IF more = <<>> THEN nodes ELSE mapSetAll(mapSet(nodes, Head(more)), Tail(more))

\* allTags: one Tag node per distinct tag name, in order of first occurrence
allTags(nodes) ==
    LET names == Dedupe(tagOccurrences(nodes)) IN
    [i \in 1..Len(names) |-> tagNode(names[i])]

\* allNodesMap and allLinks after tag materialization (1016-1030)
materializeTags(nodes, links, showTags) ==
    IF showTags
    THEN [nodes |-> mapSetAll(nodes, allTags(nodes)), links |-> links \o tagLinks(nodes)]
    ELSE [nodes |-> nodes, links |-> links]

isPositive(f) == ~f.inverted /\ trim(f.value) # <<>>
isNegative(f) == f.inverted /\ trim(f.value) # <<>>

RECURSIVE matchesOfEach(_, _)
matchesOfEach(nodes, filters) ==
    IF filters = <<>> THEN <<>>
    ELSE SelectSeq(nodes, LAMBDA n : matchesFilter(n, Head(filters)))
         \o matchesOfEach(nodes, Tail(filters))

\* mutant: a blank non-inverted rule counts as a positive rule
keepPositive_BlankCounts(nodes, filters) ==
    LET positiveFilters == SelectSeq(filters, LAMBDA f : ~f.inverted) IN
    IF Len(positiveFilters) > 0 THEN Dedupe(matchesOfEach(nodes, positiveFilters)) ELSE nodes

\* (1038-1048) nodesToKeep, a Set filled filter by filter
keepPositive(nodes, filters) ==
    LET positiveFilters == SelectSeq(filters, isPositive) IN
    IF Len(positiveFilters) > 0 THEN Dedupe(matchesOfEach(nodes, positiveFilters)) ELSE nodes

\* mutant: the negative rules are skipped once positive rules selected the nodes
dropNegative_ElseBranch(nodes, filters) ==
    LET negativeFilters == SelectSeq(filters, isNegative) IN
    IF Len(negativeFilters) > 0 /\ Len(SelectSeq(filters, isPositive)) = 0
    THEN SelectSeq(nodes, LAMBDA n :
             ~(\E i \in 1..Len(negativeFilters) : matchesFilter(n, negativeFilters[i])))
    ELSE nodes

\* (1050-1054)
dropNegative(nodes, filters) ==
    LET negativeFilters == SelectSeq(filters, isNegative) IN
    IF Len(negativeFilters) > 0
    THEN SelectSeq(nodes, LAMBDA n :
             ~(\E i \in 1..Len(negativeFilters) : matchesFilter(n, negativeFilters[i])))
    ELSE nodes

searchMatches(node, searchQuery) ==
    LET lowerCaseFilter == toLowerCase(searchQuery)
        nodeContent == IF "content" \in DOMAIN node THEN node.content ELSE <<>>
    IN  \/ includes(toLowerCase(node.name), lowerCaseFilter)
        \/ (node.type # NodeTypeTag /\ includes(toLowerCase(node.id), lowerCaseFilter))
        \/ includes(toLowerCase(nodeContent), lowerCaseFilter)

\* (1057-1065) showNeighboringNodes is destructured at 988 and never read
searchFilter(nodes, links, searchQuery, showNeighboringNodes) ==
    IF searchQuery # <<>>
    THEN SelectSeq(nodes, LAMBDA n : searchMatches(n, searchQuery))
    ELSE nodes

\* mutant: only the source of a link is looked up
projectLinks_SourceOnly(links, nodes) == SelectSeq(links, LAMBDA l : l.source \in Ids(nodes))

\* links.filter(link => ids.has(link.source) && ids.has(link.target))
projectLinks(links, nodes) ==
    SelectSeq(links, LAMBDA l : l.source \in Ids(nodes) /\ l.target \in Ids(nodes))

\* mutant: Attachment nodes pass whatever showAttachments says
visibleNodes_AttachmentsKept(nodes, showTags, showAttachments) ==
    SelectSeq(nodes, LAMBDA n : IF n.type = NodeTypeTag THEN showTags ELSE TRUE)

\* (1070-1074)
visibleNodes(nodes, showTags, showAttachments) ==
    SelectSeq(nodes, LAMBDA n :
        IF n.type = NodeTypeTag THEN showTags
        ELSE IF n.type = NodeTypeAttachment THEN showAttachments
        ELSE TRUE)

\* mutant: the links are not projected on the visible nodes before pruning
visibleLinks_Unprojected(finalLinks, nodesToShow) == finalLinks

\* (1076-1077) linksToShow before orphan pruning
visibleLinks(finalLinks, nodesToShow) == projectLinks(finalLinks, nodesToShow)

\* mutant: only link sources count as linked
linkedNodes_SourcesOnly(nodes, links) ==
    LET linkedNodeIds == {links[i].source : i \in 1..Len(links)}
    IN  SelectSeq(nodes, LAMBDA n : n.id \in linkedNodeIds)

\* (1080-1085)
linkedNodes(nodes, links) ==
    LET linkedNodeIds == {links[i].source : i \in 1..Len(links)}
                            \cup {links[i].target : i \in 1..Len(links)}
    IN  SelectSeq(nodes, LAMBDA n : n.id \in linkedNodeIds)

\* (1079-1089)
pruneOrphans(nodes, links, hideOrphans) ==
    IF hideOrphans
    THEN LET kept == linkedNodes(nodes, links) IN
         [nodes |-> kept, links |-> projectLinks(links, kept)]
    ELSE [nodes |-> nodes, links |-> links]

NullData == [isNull |-> TRUE, allNodes |-> <<>>, allLinks |-> <<>>, filtered |-> <<>>,
             finalNodes |-> <<>>, finalLinks |-> <<>>,
             nodesToShow |-> <<>>, linksToShow |-> <<>>, nodes |-> <<>>, links |-> <<>>]

\* processVaultData after its loop over allFiles: fileNodes is allNodesMap as the
\* loop filled it, st the settings destructured at 988.  The record keeps the
\* locals of the function next to its result {nodes, links}.
processVaultData(fileNodes, rl, hasRl, st) ==
    IF ~hasRl THEN NullData
    ELSE
    LET tagged      == materializeTags(fileNodes, baseLinks(rl), st.showTags)
        filtered    == dropNegative(keepPositive(tagged.nodes, st.filters), st.filters)
        finalNodes  == searchFilter(filtered, tagged.links, st.searchQuery,
                                    st.showNeighboringNodes)
        finalLinks  == projectLinks(tagged.links, finalNodes)
        nodesToShow == visibleNodes(finalNodes, st.showTags, st.showAttachments)
        linksToShow == visibleLinks(finalLinks, nodesToShow)
        pruned      == pruneOrphans(nodesToShow, linksToShow, st.hideOrphans)
    IN  [isNull |-> FALSE, allNodes |-> tagged.nodes, allLinks |-> tagged.links,
         filtered |-> filtered,
         finalNodes |-> finalNodes, finalLinks |-> finalLinks,
         nodesToShow |-> nodesToShow, linksToShow |-> linksToShow,
         nodes |-> pruned.nodes, links |-> pruned.links]

\* allNodesMap after the loop over allFiles (995-1006), read in one go
readAll(fs, tags) ==
    [i \in 1..Len(fs) |-> fileNode(fs[i], tags[fs[i].path], ContentOf(fs[i].path))]

EmptyGraph == [nodes |-> <<>>, links |-> <<>>]

\* no call to the physics engine
NoRegime == [set |-> FALSE, alphaDecay |-> 0, velocityDecay |-> 0, reheated |-> FALSE]

\* ------------------------------------------- derivation on its own

DocPaths == {DocA.path, DocB.path}

PathsOf(fs) == {fs[i].path : i \in 1..Len(fs)}

\* the rules a filter list is drawn from
FilterUniverse ==
    { [type |-> "path", value |-> <<"A">>, inverted |-> FALSE],
      [type |-> "tag", value |-> <<"#", "X">>, inverted |-> FALSE],
      [type |-> "tag", value |-> <<"#", "X">>, inverted |-> TRUE],
      [type |-> "path", value |-> <<" ">>, inverted |-> FALSE] }

SearchUniverse == { <<>>, <<"G">> }

SettingsUniverse ==
    [showAttachments : BOOLEAN, hideOrphans : BOOLEAN, showTags : BOOLEAN,
     searchQuery : SearchUniverse, showNeighboringNodes : BOOLEAN,
     filters : SeqsUpTo(FilterUniverse, MaxFilters)]

\* a vault: a prefix of FileUniverse, tags on its documents only, and resolved
\* links from its documents to its files
VaultOK(fs, tags, rl) ==
    /\ \A p \in DocPaths \ PathsOf(fs) : tags[p] = <<>>
    /\ \A l \in rl : l[1] \in PathsOf(fs) /\ l[2] \in PathsOf(fs)

InitDerive ==
    /\ files \in {SubSeq(FileUniverse, 1, n) : n \in 0..Len(FileUniverse)}
    /\ fileTags \in [DocPaths \cup {Pic.path} -> SeqsUpTo(TagNames, MaxTags)]
    /\ fileTags[DocB.path] \in {<<>>, << <<"X">> >>}
    /\ fileTags[Pic.path] = <<>>
    /\ resolvedLinks \in SUBSET Range(LinkOrder)
    /\ VaultOK(files, fileTags, resolvedLinks)
    /\ hasResolvedLinks \in BOOLEAN
    /\ hasResolvedLinks = FALSE => (resolvedLinks = {} /\ Len(files) = 1)
    /\ settings \in SettingsUniverse
    /\ settings.searchQuery = <<>> => settings.showNeighboringNodes
    /\ pc = "input"
    /\ derived = NullData
    /\ isGraphInitialized = FALSE
    /\ isUpdating = FALSE
    /\ graphData = EmptyGraph
    /\ messageVisible = FALSE
    /\ animating = FALSE
    /\ cycles = <<>>
    /\ firstLoadTimer = "unset"
    /\ lastEvent = "none"
    /\ lastRegime = NoRegime
    /\ graphHandlers = {}
    /\ pendingCalls = 0
    /\ matchInput = NoMatchInput
    /\ matchResult = NoMatchResult
    /\ colorInput = NoColorInput
    /\ colorResult = NoColor
    /\ ClickAtRest
    /\ PaintAtRest

Derive ==
    /\ pc = "input"
    /\ derived' = processVaultData(readAll(files, fileTags), resolvedLinks,
                                   hasResolvedLinks, settings)
    /\ pc' = "derived"
    /\ UNCHANGED <<corpusVars, settings, viewVars, sideVars>>

NextDerive == Derive

SpecDerive == InitDerive /\ [][NextDerive]_vars

\* ------------------------------------------- updateData (view.ts 497-608)

\* layouts the physics engine may reach: in layout t the i-th displayed node is at
\* TickPosition(t, i)
TickUniverse == {1, 2}

TickPosition(t, i) == [x |-> 10 * t + i, y |-> 20 * t + i, z |-> 30 * t + i]

\* outcomes of ((Math.random() - 0.5) * 2) on the three axes
JitterUniverse == {[x |-> -1, y |-> 0, z |-> 0], [x |-> 0, y |-> 0, z |-> -1]}

hasPosition(n) == "x" \in DOMAIN n /\ "y" \in DOMAIN n /\ "z" \in DOMAIN n

positionOf(n) == [x |-> n.x, y |-> n.y, z |-> n.z]

\* node.x = p.x; node.y = p.y; node.z = p.z
withPosition(n, p) ==
    IF n.type = NodeTypeTag
    THEN [id |-> n.id, name |-> n.name, type |-> n.type, x |-> p.x, y |-> p.y, z |-> p.z]
    ELSE [id |-> n.id, name |-> n.name, filename |-> n.filename, type |-> n.type,
          tags |-> n.tags, content |-> n.content, x |-> p.x, y |-> p.y, z |-> p.z]

\* mutant: the guard does not look at isUpdating
updateRejected_NoFlagCheck(initialized, updating) == ~initialized

\* (500) the guard of updateData
updateRejected(initialized, updating) == ~initialized \/ updating

\* mutant: the flag is not reset when a cycle ends
finallyFlag_Kept(updating) == updating

\* (605-607) finally { this.isUpdating = false }
finallyFlag(updating) == FALSE

\* mutant: a cached position is jittered like a seeded one
placeNode_JitterCached(node, nodePositions, links, jitter) ==
    IF node.id \in DOMAIN nodePositions
    THEN withPosition(node, [x |-> nodePositions[node.id].x + jitter.x,
                             y |-> nodePositions[node.id].y + jitter.y,
                             z |-> nodePositions[node.id].z + jitter.z])
    ELSE node

\* (506-513) nodePositions
cachePositions(useCache, nodes) ==
    LET cached == IF useCache /\ Len(nodes) > 0
                  THEN {i \in 1..Len(nodes) : hasPosition(nodes[i])}
                  ELSE {}
    IN  [id \in {nodes[i].id : i \in cached} |->
            positionOf(nodes[CHOOSE i \in cached : nodes[i].id = id])]

\* mutant: only the targets of the links that leave id are its neighbours
RECURSIVE neighborsOf_OutgoingOnly(_, _)
neighborsOf_OutgoingOnly(links, id) ==
    IF links = <<>> THEN <<>>
    ELSE (IF Head(links).source = id THEN <<Head(links).target>> ELSE <<>>)
         \o neighborsOf_OutgoingOnly(Tail(links), id)

\* (527-537) adjacencyMap.get(id): the other ends of the links of id, in link order
RECURSIVE neighborsOf(_, _)
neighborsOf(links, id) ==
    IF links = <<>> THEN <<>>
    ELSE LET l == Head(links) IN
         (IF l.source = id THEN <<l.target>> ELSE <<>>)
         \o (IF l.target = id THEN <<l.source>> ELSE <<>>)
         \o neighborsOf(Tail(links), id)

\* (540-559) the position of one node of newData
placeNode(node, nodePositions, links, jitter) ==
    IF node.id \in DOMAIN nodePositions
    THEN withPosition(node, nodePositions[node.id])
    ELSE LET positioned == SelectSeq(neighborsOf(links, node.id),
                                     LAMBDA m : m \in DOMAIN nodePositions)
         IN  IF positioned # <<>>
             THEN LET connectedNodePos == nodePositions[positioned[1]] IN
                  withPosition(node, [x |-> connectedNodePos.x + jitter.x,
                                      y |-> connectedNodePos.y + jitter.y,
                                      z |-> connectedNodePos.z + jitter.z])
             ELSE node

\* mutant: only the nodes with a cached position are kept
carryOver_OnlyCached(nodes, links, nodePositions, jitters) ==
    SelectSeq(nodes, LAMBDA n : n.id \in DOMAIN nodePositions)

\* (539-560) newData.nodes.forEach
carryOver(nodes, links, nodePositions, jitters) ==
    [i \in 1..Len(nodes) |-> placeNode(nodes[i], nodePositions, links, jitters[i])]

\* (995-1006) the loop over allFiles runs on until it awaits the text of a document
RECURSIVE loopUntilAwait(_, _, _)
loopUntilAwait(allFiles, i, read) ==
    IF i > Len(allFiles) THEN [i |-> i, read |-> read]
    ELSE IF allFiles[i].extension = "md" THEN [i |-> i, read |-> read]
    ELSE loopUntilAwait(allFiles, i + 1,
                        mapSet(read, fileNode(allFiles[i], fileTags[allFiles[i].path], <<>>)))

RemoveAt(s, k) == SubSeq(s, 1, k - 1) \o SubSeq(s, k + 1, Len(s))

\* (574-575) d3AlphaDecay(0.0228), in 1/10000, and d3VelocityDecay(0.4), in 1/10
HotAlphaDecay == 228
HotVelocityDecay == 4

\* (578-579) d3AlphaDecay(0.1), in 1/10000, and d3VelocityDecay(0.6), in 1/10
CoolAlphaDecay == 1000
CoolVelocityDecay == 6

\* mutant: a cycle with useCache is cool even when it is the first load or a reheat
regimeOf_CacheFirst(isFirstLoad, reheat, useCache) ==
    IF useCache
    THEN [set |-> TRUE, alphaDecay |-> CoolAlphaDecay, velocityDecay |-> CoolVelocityDecay,
          reheated |-> FALSE]
    ELSE IF isFirstLoad \/ reheat
    THEN [set |-> TRUE, alphaDecay |-> HotAlphaDecay, velocityDecay |-> HotVelocityDecay,
          reheated |-> TRUE]
    ELSE NoRegime

\* (573-580) the calls to the physics engine after the swap
regimeOf(isFirstLoad, reheat, useCache) ==
    IF isFirstLoad \/ reheat
    THEN [set |-> TRUE, alphaDecay |-> HotAlphaDecay, velocityDecay |-> HotVelocityDecay,
          reheated |-> TRUE]
    ELSE IF useCache
    THEN [set |-> TRUE, alphaDecay |-> CoolAlphaDecay, velocityDecay |-> CoolVelocityDecay,
          reheated |-> FALSE]
    ELSE NoRegime

\* mutant: the message is put up and never taken down
messageAfter_NeverHidden(hasNodes) == TRUE

\* (564, 600) removeClass('is-visible') before the swap, addClass on the empty path
messageAfter(hasNodes) == ~hasNodes

\* mutant: an exception is handled like an empty result
graphAfterCatch_Emptied(graph) == EmptyGraph

\* (603-604) catch: the error is logged, this.graph is not touched
graphAfterCatch(graph) == graph

\* (516-608) updateData after 'await this.processVaultData()': the swap or the
\* empty-result path, then the finally block
Finish(c, rest, newData) ==
    LET hasNodes == ~newData.isNull /\ Len(newData.nodes) > 0 IN
    /\ IF hasNodes
       THEN /\ \E jitters \in [1..Len(newData.nodes) -> JitterUniverse] :
                  graphData' = [nodes |-> IF c.useCache
                                          THEN carryOver(newData.nodes, newData.links,
                                                         c.nodePositions, jitters)
                                          ELSE newData.nodes,
                                links |-> newData.links]
            /\ messageVisible' = messageAfter(hasNodes)
            /\ animating' = TRUE
            /\ lastEvent' = "swapped"
            /\ lastRegime' = regimeOf(c.isFirstLoad, c.reheat, c.useCache)
            /\ UNCHANGED graphHandlers
       ELSE /\ graphData' = EmptyGraph
            /\ messageVisible' = messageAfter(hasNodes)
            /\ animating' = FALSE
            /\ lastEvent' = "empty"
            /\ lastRegime' = NoRegime
            /\ graphHandlers' = handlersAfterEmpty(graphHandlers)
    /\ isUpdating' = finallyFlag(isUpdating)
    /\ cycles' = rest

\* (497-515) a call of updateData(opts), up to its first suspension
UpdateData(opts) ==
    IF updateRejected(isGraphInitialized, isUpdating)
    THEN /\ lastEvent' = "rejected"
         /\ UNCHANGED <<lastRegime, isGraphInitialized, isUpdating, graphData, messageVisible,
                        animating, cycles, graphHandlers>>
    ELSE LET start == IF hasResolvedLinks
                      THEN loopUntilAwait(files, 1, <<>>)
                      ELSE [i |-> Len(files) + 1, read |-> <<>>]
             c == [useCache |-> opts.useCache, reheat |-> opts.reheat,
                   isFirstLoad |-> opts.isFirstLoad,
                   nodePositions |-> cachePositions(opts.useCache, graphData.nodes),
                   allFiles |-> files, i |-> start.i, read |-> start.read,
                   tags |-> IF start.i <= Len(files) THEN fileTags[files[start.i].path]
                            ELSE <<>>,
                   st |-> settings]
         IN  /\ UNCHANGED isGraphInitialized
             /\ IF start.i > Len(files)
                THEN Finish(c, cycles,
                            processVaultData(start.read, resolvedLinks,
                                             hasResolvedLinks, settings))
                ELSE /\ lastEvent' = "started"
                     /\ lastRegime' = NoRegime
                     /\ isUpdating' = TRUE
                     /\ cycles' = Append(cycles, c)
                     /\ UNCHANGED <<graphData, messageVisible, animating, graphHandlers>>

FirstLoadOptions == [useCache |-> TRUE, reheat |-> FALSE, isFirstLoad |-> TRUE]
LiveUpdateOptions == [useCache |-> TRUE, reheat |-> FALSE, isFirstLoad |-> FALSE]
ForceOptions == [useCache |-> FALSE, reheat |-> TRUE, isFirstLoad |-> FALSE]

\* (469-495) initializeGraph, in onLayoutReady
InitializeGraph ==
    /\ ~isGraphInitialized
    /\ firstLoadTimer = "unset"
    /\ graphData' = EmptyGraph
    /\ animating' = FALSE
    /\ isGraphInitialized' = TRUE
    /\ firstLoadTimer' = "pending"
    /\ graphHandlers' = InitialHandlers
    /\ UNCHANGED <<corpusVars, settings, pc, derived, sideVars, isUpdating, messageVisible, cycles,
                   lastEvent, lastRegime>>

\* (493) the timer of initializeGraph fires
FirstLoad ==
    /\ firstLoadTimer = "pending"
    /\ firstLoadTimer' = "fired"
    /\ UpdateData(FirstLoadOptions)
    /\ UNCHANGED <<corpusVars, settings, pc, derived, sideVars>>

\* triggerLiveUpdate and the handlers of the search, filter and visibility settings
TriggerUpdate ==
    /\ UpdateData(LiveUpdateOptions)
    /\ UNCHANGED <<corpusVars, settings, pc, derived, sideVars, firstLoadTimer>>

\* (364-367) forceChangeHandler
ForceChange ==
    /\ UpdateData(ForceOptions)
    /\ UNCHANGED <<corpusVars, settings, pc, derived, sideVars, firstLoadTimer>>

\* (1002) the awaited cachedRead of cycle k resolves; the loop runs on to the next
\* document, or processVaultData returns and updateData finishes
ReadDone(k) ==
    LET c    == cycles[k]
        file == c.allFiles[c.i]
        next == loopUntilAwait(c.allFiles, c.i + 1,
                               mapSet(c.read, fileNode(file, c.tags, ContentOf(file.path))))
    IN  /\ IF next.i > Len(c.allFiles)
           THEN Finish(c, RemoveAt(cycles, k),
                       processVaultData(next.read, resolvedLinks, TRUE,
                                        [c.st EXCEPT !.filters = settings.filters]))
           ELSE /\ cycles' = [cycles EXCEPT ![k] =
                                [c EXCEPT !.i = next.i, !.read = next.read,
                                          !.tags = fileTags[c.allFiles[next.i].path]]]
                /\ UNCHANGED <<isUpdating, graphData, messageVisible, animating, lastEvent,
                               lastRegime, graphHandlers>>
        /\ UNCHANGED <<corpusVars, settings, pc, derived, sideVars, isGraphInitialized, firstLoadTimer>>

\* (1002, 603-607) the awaited cachedRead of cycle k rejects: catch, then finally
ReadFail(k) ==
    /\ isUpdating' = finallyFlag(isUpdating)
    /\ cycles' = RemoveAt(cycles, k)
    /\ lastEvent' = "error"
    /\ lastRegime' = NoRegime
    /\ graphData' = graphAfterCatch(graphData)
    /\ UNCHANGED <<corpusVars, settings, pc, derived, sideVars, isGraphInitialized,
                   messageVisible, animating, firstLoadTimer, graphHandlers>>

\* the physics engine moves the displayed nodes while the animation runs
EngineTick ==
    /\ animating
    /\ graphData.nodes # <<>>
    /\ \E t \in TickUniverse :
          graphData' = [graphData EXCEPT !.nodes =
                            [i \in 1..Len(graphData.nodes) |->
                                withPosition(graphData.nodes[i], TickPosition(t, i))]]
    /\ UNCHANGED <<corpusVars, settings, pc, derived, sideVars, isGraphInitialized, isUpdating,
                   messageVisible, animating, cycles, firstLoadTimer, lastEvent,
                   lastRegime, graphHandlers>>

\* (188-193) the 'Show tags' toggle writes this.settings
ChangeSetting ==
    /\ settings' = [settings EXCEPT !.showTags = ~settings.showTags]
    /\ UNCHANGED <<corpusVars, pc, derived, sideVars, viewVars>>

\* a file is created in the vault
CreateFile ==
    /\ Len(files) < MaxVaultFiles
    /\ Len(files) < Len(FileUniverse)
    /\ files' = Append(files, FileUniverse[Len(files) + 1])
    /\ UNCHANGED <<fileTags, resolvedLinks, hasResolvedLinks, settings, pc, derived, sideVars, viewVars>>

\* the last file of the vault is deleted, with its tags and its links
DeleteFile ==
    /\ Len(files) > 0
    /\ LET gone == files[Len(files)].path IN
       /\ files' = SubSeq(files, 1, Len(files) - 1)
       /\ fileTags' = [fileTags EXCEPT ![gone] = <<>>]
       /\ resolvedLinks' = {l \in resolvedLinks : l[1] # gone /\ l[2] # gone}
    /\ UNCHANGED <<hasResolvedLinks, settings, pc, derived, sideVars, viewVars>>

\* a document is edited: a tag is added to it or its tags are removed
ModifyFile ==
    /\ DocA.path \in PathsOf(files)
    /\ fileTags' = [fileTags EXCEPT ![DocA.path] =
                        IF fileTags[DocA.path] = <<>> THEN << <<"X">> >> ELSE <<>>]
    /\ UNCHANGED <<files, resolvedLinks, hasResolvedLinks, settings, pc, derived, sideVars, viewVars>>

\* the metadata cache resolves a link from the first document to another
\* document, or drops one
ResolveLink ==
    /\ \E l \in Range(LinkOrder) :
          /\ l[1] = DocA.path /\ l[2] \in DocPaths
          /\ l[1] \in PathsOf(files) /\ l[2] \in PathsOf(files)
          /\ resolvedLinks' = IF l \in resolvedLinks
                              THEN resolvedLinks \ {l} ELSE resolvedLinks \cup {l}
    /\ UNCHANGED <<files, fileTags, hasResolvedLinks, settings, pc, derived, sideVars, viewVars>>

\* DEFAULT_SETTINGS (types.ts 53-61)
DEFAULT_SETTINGS ==
    [searchQuery |-> <<>>, showNeighboringNodes |-> TRUE, filters |-> <<>>,
     showAttachments |-> FALSE, hideOrphans |-> FALSE, showTags |-> FALSE]

Init ==
    /\ files = <<>>
    /\ fileTags = [p \in DocPaths \cup {Pic.path} |-> <<>>]
    /\ resolvedLinks = {}
    /\ hasResolvedLinks = TRUE
    /\ settings = DEFAULT_SETTINGS
    /\ pc = "view"
    /\ derived = NullData
    /\ isGraphInitialized = FALSE
    /\ isUpdating = FALSE
    /\ graphData = EmptyGraph
    /\ messageVisible = FALSE
    /\ animating = FALSE
    /\ cycles = <<>>
    /\ firstLoadTimer = "unset"
    /\ lastEvent = "none"
    /\ lastRegime = NoRegime
    /\ graphHandlers = {}
    /\ pendingCalls = 0
    /\ matchInput = NoMatchInput
    /\ matchResult = NoMatchResult
    /\ colorInput = NoColorInput
    /\ colorResult = NoColor
    /\ ClickAtRest
    /\ PaintAtRest

Next ==
    \/ InitializeGraph
    \/ FirstLoad
    \/ TriggerUpdate
    \/ ForceChange
    \/ \E k \in 1..Len(cycles) : ReadDone(k)
    \/ \E k \in 1..Len(cycles) : ReadFail(k)
    \/ EngineTick
    \/ ChangeSetting
    \/ CreateFile
    \/ DeleteFile
    \/ ModifyFile
    \/ ResolveLink

Spec == Init /\ [][Next]_vars

\* ---------------------------------------------- claims on the derivation

Derived == pc = "derived" /\ ~derived.isNull

NoDangling(nodes, links) ==
    \A i \in 1..Len(links) : links[i].source \in Ids(nodes) /\ links[i].target \in Ids(nodes)

\* the links of ls with n at one end
Incident(ls, id) == {i \in 1..Len(ls) : ls[i].source = id \/ ls[i].target = id}

OtherEnd(l, id) == IF l.source = id THEN l.target ELSE l.source

NoActiveFilter == \A i \in 1..Len(settings.filters) : trim(settings.filters[i].value) = <<>>

\* C1: the pair left after each narrowing stage (filters and search, visibility,
\* orphan pruning) and the returned pair hold only links whose source and target
\* are ids of nodes of that same pair.
C1_NoDanglingLinks ==
    Derived =>
        /\ NoDangling(derived.finalNodes, derived.finalLinks)
        /\ NoDangling(derived.nodesToShow, derived.linksToShow)
        /\ NoDangling(derived.nodes, derived.links)

\* a narrowing stage removed an endpoint of a link, and links are left
C1_Witness ==
    /\ Derived
    /\ ~NoDangling(derived.finalNodes, derived.allLinks)
    /\ ~NoDangling(derived.nodesToShow, derived.finalLinks)
    /\ derived.links # <<>>

C6_SearchWithNeighbors ==
    (Derived /\ settings.searchQuery # <<>>) =>
        LET cand    == Range(derived.filtered)
            matches == {n.id : n \in {m \in cand : searchMatches(m, settings.searchQuery)}}
            ls      == derived.allLinks
            nbrs    == {n.id : n \in {m \in cand :
                            \E i \in Incident(ls, m.id) : OtherEnd(ls[i], m.id) \in matches}}
        IN  Ids(derived.finalNodes) =
                matches \cup (IF settings.showNeighboringNodes THEN nbrs ELSE {})

\* C7: with hideOrphans, a document all of whose links lead to nodes that the
\* filter, search or visibility stage removed is not in the output.
C7_OrphansOnVisibleLinks ==
    (Derived /\ settings.hideOrphans) =>
        \A n \in Range(derived.allNodes) :
            (/\ n.type = NodeTypeFile
             /\ \A i \in Incident(derived.allLinks, n.id) :
                    OtherEnd(derived.allLinks[i], n.id) \notin Ids(derived.nodesToShow))
            => n.id \notin Ids(derived.nodes)

\* a document survived every stage but its only links went to a hidden attachment
C7_Witness ==
    /\ Derived /\ settings.hideOrphans /\ ~settings.showAttachments
    /\ \E n \in Range(derived.nodesToShow) :
          /\ n.type = NodeTypeFile
          /\ Incident(derived.finalLinks, n.id) # {}
          /\ \A i \in Incident(derived.finalLinks, n.id) :
                 OtherEnd(derived.finalLinks[i], n.id) = Pic.path
          /\ n.id \notin Ids(derived.nodes)

\* C8: with hideOrphans, every returned node is an endpoint of a returned link.
C8_NoOrphanLeft ==
    (Derived /\ settings.hideOrphans) =>
        \A n \in Range(derived.nodes) : Incident(derived.links, n.id) # {}

\* pruning removed a node and kept others
C8_Witness ==
    /\ Derived /\ settings.hideOrphans
    /\ Len(derived.nodes) < Len(derived.nodesToShow)
    /\ derived.nodes # <<>>

DocsOf(fs) == {fs[i] : i \in {j \in 1..Len(fs) : fs[j].extension = "md"}}

\* the tag names of the vault's documents
CorpusTags == UNION {Range(fileTags[d.path]) : d \in DocsOf(files)}

CorpusTagLinks ==
    UNION {{[source |-> d.path, target |-> tagId(t)] : t \in Range(fileTags[d.path])} :
           d \in DocsOf(files)}

\* C9: with showTags and nothing narrowing, the Tag nodes are one per distinct
\* tag name of the vault and every document is linked to each of its tags.
C9_TagMaterialization ==
    (Derived /\ settings.showTags /\ NoActiveFilter /\ settings.searchQuery = <<>>
        /\ ~settings.hideOrphans) =>
        LET ns == derived.nodes
            tagIdx == {i \in 1..Len(ns) : ns[i].type = NodeTypeTag}
        IN  /\ {ns[i].id : i \in tagIdx} = {tagId(t) : t \in CorpusTags}
            /\ \A i, j \in tagIdx : ns[i].id = ns[j].id => i = j
            /\ {l \in Range(derived.links) : l.target \notin PathsOf(files)} = CorpusTagLinks

\* the scenario of the claim: A and B carry the same tag and A links to B
C9_Witness ==
    /\ Derived /\ settings.showTags /\ NoActiveFilter /\ settings.searchQuery = <<>>
    /\ ~settings.hideOrphans /\ ~settings.showAttachments
    /\ fileTags[DocA.path] = << <<"X">> >> /\ fileTags[DocB.path] = << <<"X">> >>
    /\ resolvedLinks = {<<DocA.path, DocB.path>>}
    /\ Ids(derived.nodes) = {DocA.path, DocB.path, tagId(<<"X">>)}
    /\ Len(derived.nodes) = 3
    /\ Range(derived.links) =
          {[source |-> DocA.path, target |-> DocB.path],
           [source |-> DocA.path, target |-> tagId(<<"X">>)],
           [source |-> DocB.path, target |-> tagId(<<"X">>)]}

BaseGraphNodeIds(withAttachments) ==
    {f.path : f \in {g \in Range(files) : g.extension = "md" \/ withAttachments}}
        \cup (IF settings.showTags THEN {tagId(t) : t \in CorpusTags} ELSE {})

BaseGraphLinks(withAttachments) ==
    {l \in {[source |-> p[1], target |-> p[2]] : p \in resolvedLinks}
            \cup (IF settings.showTags THEN CorpusTagLinks ELSE {}) :
        /\ l.source \in BaseGraphNodeIds(withAttachments)
        /\ l.target \in BaseGraphNodeIds(withAttachments)}

NothingNarrows == NoActiveFilter /\ settings.searchQuery = <<>> /\ ~settings.hideOrphans

\* C10 as stated: with no filter rule, no search text and hideOrphans off, the
\* derived graph is every document, every attachment, the tag nodes if showTags,
\* and every link between them.
C10_Original ==
    (Derived /\ NothingNarrows) =>
        /\ Ids(derived.nodes) = BaseGraphNodeIds(TRUE)
        /\ Len(derived.nodes) = Cardinality(BaseGraphNodeIds(TRUE))
        /\ Range(derived.links) = BaseGraphLinks(TRUE)

\* C10 amended: the attachments and the links to them are part of the derived
\* graph only if showAttachments is on.
C10_UnfilteredBaseGraph ==
    (Derived /\ NothingNarrows) =>
        /\ Ids(derived.nodes) = BaseGraphNodeIds(settings.showAttachments)
        /\ Len(derived.nodes) = Cardinality(BaseGraphNodeIds(settings.showAttachments))
        /\ Range(derived.links) = BaseGraphLinks(settings.showAttachments)

\* a vault with an attachment, a tag and a link, blank rules only, all shown
C10_Witness ==
    /\ Derived /\ NothingNarrows /\ settings.showAttachments /\ settings.showTags
    /\ Len(settings.filters) = 2
    /\ Len(files) = 3 /\ CorpusTags # {} /\ Cardinality(resolvedLinks) = 3
    /\ Len(derived.nodes) >= 4

\* -------------------------------------------- claims on the update cycle

\* the step is an updateData call that the guard sent back
RejectedCall == lastEvent' = "rejected" /\ lastEvent # "rejected"

\* the step suspends a new cycle at its first await
CycleStarts == Len(cycles') = Len(cycles) + 1

\* the step ends a suspended cycle
CycleEnds == Len(cycles') = Len(cycles) - 1

\* C2: at most one updateData cycle is in flight; a call made while isUpdating is
\* set or before the graph is initialized starts no cycle and leaves the graph
\* and the cycle in flight alone, and nothing is left to run when that cycle ends.
C2_SingleCycleInFlight ==
    /\ [](Len(cycles) <= 1)
    /\ [][(isUpdating \/ ~isGraphInitialized) => ~CycleStarts]_vars
    /\ [][RejectedCall => UNCHANGED <<graphData, messageVisible, animating, cycles,
                                      isUpdating>>]_vars
    /\ [][CycleEnds => cycles' = <<>>]_vars

\* a call was sent back while a cycle is suspended at a read
C2_Witness == lastEvent = "rejected" /\ isUpdating /\ Len(cycles) = 1

\* C3: a cycle that ends, by a swap, by the empty-result path or by an exception,
\* clears isUpdating, so the flag is never set with no cycle in flight; a call that
\* the guard sent back leaves the flag as it is.
C3_FlagClearedAtEnd ==
    /\ [](isUpdating => cycles # <<>>)
    /\ [][(CycleEnds /\ lastEvent' \in {"swapped", "empty", "error"}) => ~isUpdating']_vars
    /\ [][RejectedCall => isUpdating' = isUpdating]_vars

\* a cycle ended by an exception and the guard is open again
C3_Witness == lastEvent = "error" /\ ~isUpdating /\ isGraphInitialized /\ cycles = <<>>

\* the positions of the displayed nodes that have x, y and z
DisplayedPositions ==
    {<<graphData.nodes[i].id, positionOf(graphData.nodes[i])>> :
        i \in {j \in 1..Len(graphData.nodes) : hasPosition(graphData.nodes[j])}}

\* C4: a cycle with useCache caches the x, y, z of every displayed node that has
\* them when it starts, and gives exactly these values to every node of the new
\* graph with the same id when it swaps the new graph in.
C4_PositionCarryOver ==
    /\ [][(CycleStarts /\ cycles'[Len(cycles')].useCache) =>
            {<<id, cycles'[Len(cycles')].nodePositions[id]>> :
                id \in DOMAIN cycles'[Len(cycles')].nodePositions} = DisplayedPositions]_vars
    /\ [][(CycleEnds /\ lastEvent' = "swapped" /\ cycles[1].useCache) =>
            \A i \in 1..Len(graphData'.nodes) :
                LET n == graphData'.nodes[i] IN
                n.id \in DOMAIN cycles[1].nodePositions =>
                    hasPosition(n) /\ positionOf(n) = cycles[1].nodePositions[n.id]]_vars

\* after a swap a node sits where the engine had put it when it was at another
\* index of the previous graph: its position was carried over
C4_Witness ==
    /\ lastEvent = "swapped"
    /\ \E i \in 1..Len(graphData.nodes) :
          /\ hasPosition(graphData.nodes[i])
          /\ \E t \in TickUniverse, j \in 1..4 :
                j # i /\ positionOf(graphData.nodes[i]) = TickPosition(t, j)

\* ------------------------- settings handlers and live updates around updateData

\* most handlers that wait to call updateData at one time
MaxPending == 2

\* a vault with one tagged document; the view is constructed, its graph is not
InitLive ==
    /\ files = <<DocA>>
    /\ fileTags = [p \in DocPaths \cup {Pic.path} |->
                      IF p = DocA.path THEN << <<"X">> >> ELSE <<>>]
    /\ resolvedLinks = {}
    /\ hasResolvedLinks = TRUE
    /\ settings = DEFAULT_SETTINGS
    /\ pc = "view"
    /\ derived = NullData
    /\ isGraphInitialized = FALSE
    /\ isUpdating = FALSE
    /\ graphData = EmptyGraph
    /\ messageVisible = FALSE
    /\ animating = FALSE
    /\ cycles = <<>>
    /\ firstLoadTimer = "unset"
    /\ lastEvent = "none"
    /\ lastRegime = NoRegime
    /\ graphHandlers = {}
    /\ pendingCalls = 0
    /\ matchInput = NoMatchInput
    /\ matchResult = NoMatchResult
    /\ colorInput = NoColorInput
    /\ colorResult = NoColor
    /\ ClickAtRest
    /\ PaintAtRest

\* (view.ts 190-192, settings.ts 99) the 'Show tags' handler up to
\* 'await this.plugin.saveSettings()': the setting is written, the call is to come
ShowTagsChanged ==
    /\ pendingCalls < MaxPending
    /\ settings' = [settings EXCEPT !.showTags = ~settings.showTags]
    /\ pendingCalls' = pendingCalls + 1
    /\ UNCHANGED <<corpusVars, pc, derived, viewVars, matchVars, colorVars, clickVars, paintVars>>

\* (main.ts 672-675) the document is modified: its tag is removed or put back, and
\* the debounced triggerLiveUpdate is to come
FileModified ==
    /\ pendingCalls < MaxPending
    /\ fileTags' = [fileTags EXCEPT ![DocA.path] =
                        IF fileTags[DocA.path] = <<>> THEN << <<"X">> >> ELSE <<>>]
    /\ pendingCalls' = pendingCalls + 1
    /\ UNCHANGED <<files, resolvedLinks, hasResolvedLinks, settings, pc, derived, viewVars,
                   matchVars, colorVars, clickVars, paintVars>>

\* (view.ts 193, settings.ts 19, main.ts 679-685) a handler resumes and calls updateData
HandlerCall ==
    /\ pendingCalls > 0
    /\ pendingCalls' = pendingCalls - 1
    /\ UpdateData(LiveUpdateOptions)
    /\ UNCHANGED <<corpusVars, settings, pc, derived, firstLoadTimer, matchVars, colorVars,
                   clickVars, paintVars>>

NextLive ==
    \/ InitializeGraph
    \/ FirstLoad
    \/ ShowTagsChanged
    \/ FileModified
    \/ HandlerCall
    \/ ForceChange
    \/ \E k \in 1..Len(cycles) : ReadDone(k)
    \/ \E k \in 1..Len(cycles) : ReadFail(k)
    \/ EngineTick

SpecLive == InitLive /\ [][NextLive]_vars

\* what processVaultData returns on the corpus and the settings as they are now
CurrentDerivation ==
    processVaultData(readAll(files, fileTags), resolvedLinks, hasResolvedLinks, settings)

\* no handler is waiting to call updateData, no cycle is in flight, and the last
\* cycle ran to its end without an exception
Settled ==
    /\ isGraphInitialized /\ firstLoadTimer = "fired"
    /\ pendingCalls = 0 /\ cycles = <<>> /\ ~isUpdating
    /\ lastEvent \in {"swapped", "empty"}

\* C11: once the triggers have stopped and the last started cycle has finished, the
\* displayed graph is the derivation of the current corpus under the current settings.
C11_ChangesReflected ==
    Settled =>
        /\ Ids(graphData.nodes) = Ids(CurrentDerivation.nodes)
        /\ Range(graphData.links) = Range(CurrentDerivation.links)

\* the step moves a suspended cycle on to its next await
CycleMovesOn == Len(cycles') = Len(cycles) /\ cycles' # cycles

C13_MessageIffEmpty ==
    lastEvent \in {"swapped", "empty"} => (messageVisible <=> graphData.nodes = <<>>)

\* the message is up over an empty graph and the vault has got a document since
C13_Witness ==
    /\ lastEvent = "empty" /\ messageVisible /\ graphData = EmptyGraph
    /\ files # <<>>

\* C14: a cycle of the first load or of a force change that swaps a graph in sets
\* alpha decay 0.0228 and velocity decay 0.4 and reheats; any other cycle sets
\* alpha decay 0.1 and velocity decay 0.6 and does not reheat.
C14_PhysicsRegime ==
    [][(CycleEnds /\ lastEvent' = "swapped") =>
        IF cycles[1].isFirstLoad \/ (cycles[1].reheat /\ ~cycles[1].useCache)
        THEN lastRegime' = [set |-> TRUE, alphaDecay |-> 228, velocityDecay |-> 4,
                            reheated |-> TRUE]
        ELSE lastRegime' = [set |-> TRUE, alphaDecay |-> 1000, velocityDecay |-> 6,
                            reheated |-> FALSE]]_vars

\* a live update swapped a graph in under the cool regime over a laid-out graph
C14_Witness ==
    /\ lastEvent = "swapped"
    /\ lastRegime.set /\ lastRegime.alphaDecay = 1000 /\ ~lastRegime.reheated
    /\ \E i \in 1..Len(graphData.nodes) : hasPosition(graphData.nodes[i])

\* ------------------------------------ matchesFilter and the filter stage alone

\* the values a rule may carry
RuleValues == { <<>>, <<" ">>, <<"#", "X">>, <<" ", "x", " ">>, <<"b">> }

RuleUniverse == [type : {"path", "tag"}, value : RuleValues, inverted : BOOLEAN]

\* the rest of the view while the filter stage is looked at alone
ViewAtRest ==
    /\ files = FileUniverse
    /\ fileTags \in [DocPaths \cup {Pic.path} -> SeqsUpTo(TagNames, MaxTags)]
    /\ fileTags[DocB.path] = <<>>
    /\ fileTags[Pic.path] = <<>>
    /\ resolvedLinks = {}
    /\ hasResolvedLinks = TRUE
    /\ settings = DEFAULT_SETTINGS
    /\ pc = "match"
    /\ derived = NullData
    /\ isGraphInitialized = FALSE
    /\ isUpdating = FALSE
    /\ graphData = EmptyGraph
    /\ messageVisible = FALSE
    /\ animating = FALSE
    /\ cycles = <<>>
    /\ firstLoadTimer = "unset"
    /\ lastEvent = "none"
    /\ lastRegime = NoRegime
    /\ graphHandlers = {}
    /\ pendingCalls = 0

\* (1032) finalNodes before the filter stage: the files of the vault and the tags
\* of the first document, under a list of rules
InitMatch ==
    /\ ViewAtRest
    /\ \E filters \in SeqsUpTo(RuleUniverse, MaxFilters) :
          matchInput = [nodes |-> materializeTags(readAll(files, fileTags), <<>>, TRUE).nodes,
                        filters |-> filters]
    /\ matchResult = NoMatchResult
    /\ colorInput = NoColorInput
    /\ colorResult = NoColor
    /\ ClickAtRest
    /\ PaintAtRest

\* (1034-1054) matchesFilter on every node and rule, and the filter stage
Match ==
    /\ ~matchResult.done
    /\ matchResult' =
          [done |-> TRUE,
           matches |-> [i \in 1..Len(matchInput.nodes) |->
                           [j \in 1..Len(matchInput.filters) |->
                               matchesFilter(matchInput.nodes[i], matchInput.filters[j])]],
           kept |-> dropNegative(keepPositive(matchInput.nodes, matchInput.filters),
                                 matchInput.filters)]
    /\ UNCHANGED <<corpusVars, settings, pc, derived, viewVars, handlerVars, matchInput,
                   colorVars, clickVars, paintVars>>

NextMatch == Match

SpecMatch == InitMatch /\ [][NextMatch]_vars

\* the value of a tag rule, trimmed and without its leading '#'
StrippedValue(value) ==
    LET t == trim(value) IN IF t # <<>> /\ Head(t) = "#" THEN Tail(t) ELSE t

\* the tag list of the node holds the value, whatever the case of the letters
CarriesTag(node, value) ==
    /\ "tags" \in DOMAIN node
    /\ \E i \in 1..Len(node.tags) :
          toLowerCase(node.tags[i]) = toLowerCase(StrippedValue(value))

\* C15: a tag rule matches a node if and only if the tag list of the node holds the
\* value of the rule, trimmed, without a leading '#' and without regard to case; an
\* inverted tag rule on its own removes exactly the nodes that carry the tag.
C15_TagRuleMatching ==
    matchResult.done =>
        /\ \A i \in 1..Len(matchInput.nodes), j \in 1..Len(matchInput.filters) :
              matchInput.filters[j].type = "tag" =>
                  (matchResult.matches[i][j]
                     <=> CarriesTag(matchInput.nodes[i], matchInput.filters[j].value))
        /\ (/\ Len(matchInput.filters) = 1
            /\ matchInput.filters[1].type = "tag"
            /\ matchInput.filters[1].inverted) =>
              Ids(matchResult.kept) =
                  {n.id : n \in {m \in Range(matchInput.nodes) :
                                    ~CarriesTag(m, matchInput.filters[1].value)}}

\* the inverted rule '#X' removed the document tagged 'X' and kept the untagged one
C15_Witness ==
    /\ matchResult.done
    /\ matchInput.filters = << [type |-> "tag", value |-> <<"#", "X">>, inverted |-> TRUE] >>
    /\ fileTags[DocA.path] = << <<"X">> >>
    /\ DocA.path \notin Ids(matchResult.kept)
    /\ DocB.path \in Ids(matchResult.kept)

BlankRule(f) == trim(f.value) = <<>>

\* C16: a rule whose value is empty or blank matches no node, and the filter stage
\* returns what it returns on the list without the blank rules; with blank rules
\* only, it returns every node.
C16_BlankRulesInert ==
    matchResult.done =>
        LET core == SelectSeq(matchInput.filters, LAMBDA f : ~BlankRule(f)) IN
        /\ \A i \in 1..Len(matchInput.nodes), j \in 1..Len(matchInput.filters) :
              BlankRule(matchInput.filters[j]) => ~matchResult.matches[i][j]
        /\ matchResult.kept = dropNegative(keepPositive(matchInput.nodes, core), core)
        /\ core = <<>> => matchResult.kept = matchInput.nodes

\* a blank positive rule and a blank inverted rule, and every node is kept
C16_Witness ==
    /\ matchResult.done
    /\ Len(matchInput.filters) = 2
    /\ BlankRule(matchInput.filters[1]) /\ ~matchInput.filters[1].inverted
    /\ BlankRule(matchInput.filters[2]) /\ matchInput.filters[2].inverted
    /\ matchResult.kept = matchInput.nodes
    /\ Len(matchInput.nodes) >= 4

\* ------------------------------------------------ getNodeColor (view.ts 674-729)

\* most color groups in the settings
MaxGroups == 2

\* (637-672) getCssColor on an empty colorCache: the color the theme gives to the
\* variable, or the fallback when the theme color cannot be read
getCssColor(variable, fallback, cssOk) == IF cssOk THEN <<"css", variable>> ELSE fallback

\* (691) replace(/^#/, '')
stripHash(s) == IF s # <<>> /\ Head(s) = "#" THEN Tail(s) ELSE s

\* (702-704) new RegExp('^' + pattern + '$', 'i').test(s) for a pattern of literal
\* characters and '*'
RECURSIVE regexTest(_, _)
regexTest(pattern, s) ==
    IF pattern = <<>> THEN s = <<>>
    ELSE IF Head(pattern) = "*"
    THEN regexTest(Tail(pattern), s) \/ (s # <<>> /\ regexTest(pattern, Tail(s)))
    ELSE /\ s # <<>>
         /\ LowerChar(Head(s)) = LowerChar(Head(pattern))
         /\ regexTest(Tail(pattern), Tail(s))

\* (682-717) the body of the loop over groups: the group gives its color to the node
groupMatches(node, group) ==
    LET query == toLowerCase(group.query) IN
    IF query = <<>> THEN FALSE
    ELSE IF startsWith(query, <<"p", "a", "t", "h", ":">>)
    THEN LET pathQuery == trim(substring(query, 5)) IN
         node.type # NodeTypeTag /\ startsWith(toLowerCase(node.id), pathQuery)
    ELSE IF startsWith(query, <<"t", "a", "g", ":">>)
    THEN LET tagQuery == stripHash(trim(substring(query, 4))) IN
         \/ node.type = NodeTypeTag /\ toLowerCase(node.name) = <<"#">> \o tagQuery
         \/ /\ node.type = NodeTypeFile
            /\ "tags" \in DOMAIN node
            /\ \E i \in 1..Len(node.tags) : toLowerCase(node.tags[i]) = tagQuery
    ELSE IF startsWith(query, <<"f", "i", "l", "e", ":">>)
    THEN LET fileQuery == toLowerCase(trim(substring(query, 5))) IN
         /\ node.type \in {NodeTypeFile, NodeTypeAttachment}
         /\ "filename" \in DOMAIN node /\ node.filename # <<>>
         /\ IF includes(fileQuery, <<"*">>)
            THEN regexTest(fileQuery, node.filename)
            ELSE toLowerCase(node.filename) = fileQuery
    ELSE \/ includes(toLowerCase(node.name), query)
         \/ /\ "content" \in DOMAIN node /\ node.content # <<>>
            /\ includes(toLowerCase(node.content), query)

\* (681-718) for (const group of groups): the color of the first group that matches
RECURSIVE firstGroupColor(_, _)
firstGroupColor(node, groups) ==
    IF groups = <<>> THEN NoColor
    ELSE IF groupMatches(node, Head(groups)) THEN Head(groups).color
    ELSE firstGroupColor(node, Tail(groups))

\* (720-728) the color of the type of the node
typeColor(node, st, cssOk) ==
    IF st.useThemeColors
    THEN IF node.type = NodeTypeTag
         THEN getCssColor("--graph-tags", st.colorTag, cssOk)
         ELSE IF node.type = NodeTypeAttachment
         THEN getCssColor("--graph-unresolved", st.colorAttachment, cssOk)
         ELSE getCssColor("--graph-node", st.colorNode, cssOk)
    ELSE IF node.type = NodeTypeTag THEN st.colorTag
         ELSE IF node.type = NodeTypeAttachment THEN st.colorAttachment
         ELSE st.colorNode

\* mutant: the groups are looked at before the highlight
getNodeColor_GroupsFirst(node, highlighted, st, cssOk) ==
    IF firstGroupColor(node, st.groups) # NoColor THEN firstGroupColor(node, st.groups)
    ELSE IF node.id \in highlighted
    THEN IF st.useThemeColors
         THEN getCssColor("--graph-node-focused", st.colorHighlight, cssOk)
         ELSE st.colorHighlight
    ELSE typeColor(node, st, cssOk)

\* (674-729) getNodeColor
getNodeColor(node, highlighted, st, cssOk) ==
    IF node.id \in highlighted
    THEN IF st.useThemeColors
         THEN getCssColor("--graph-node-focused", st.colorHighlight, cssOk)
         ELSE st.colorHighlight
    ELSE IF firstGroupColor(node, st.groups) # NoColor THEN firstGroupColor(node, st.groups)
    ELSE typeColor(node, st, cssOk)

\* the queries a color group may carry
QueryUniverse ==
    { <<>>,
      <<"p", "a", "t", "h", ":", "A">>,
      <<"t", "a", "g", ":", "#", "X">>,
      <<"f", "i", "l", "e", ":", "*", ".", "p", "n", "g">>,
      <<"f", "i", "l", "e", ":", "b", ".", "m", "d">>,
      <<"g">> }

GroupUniverse == [query : QueryUniverse, color : {"red", "blue"}]

\* the nodes of a vault whose first document carries the tag X, tags shown
ColoredNodes ==
    materializeTags(readAll(FileUniverse,
                            [q \in DocPaths \cup {Pic.path} |->
                                IF q = DocA.path THEN << <<"X">> >> ELSE <<>>]),
                    <<>>, TRUE).nodes

\* a node to color, highlighted or not, under a list of groups
InitColor ==
    /\ ViewAtRest
    /\ fileTags[DocA.path] = << <<"X">> >>
    /\ matchInput = NoMatchInput
    /\ matchResult = NoMatchResult
    /\ \E i \in 1..Len(ColoredNodes), hl \in BOOLEAN, theme \in BOOLEAN, cssOk \in BOOLEAN,
          groups \in SeqsUpTo(GroupUniverse, MaxGroups) :
          colorInput = [set |-> TRUE, node |-> ColoredNodes[i],
                        highlightedNodes |-> IF hl THEN {ColoredNodes[i].id} ELSE {},
                        st |-> ColorSettings(theme, groups), cssOk |-> cssOk]
    /\ colorResult = NoColor
    /\ ClickAtRest
    /\ PaintAtRest

\* (621) const color = this.getNodeColor(node)
ColorNode ==
    /\ colorInput.set
    /\ colorResult = NoColor
    /\ colorResult' = getNodeColor(colorInput.node, colorInput.highlightedNodes,
                                   colorInput.st, colorInput.cssOk)
    /\ UNCHANGED <<corpusVars, settings, pc, derived, viewVars, handlerVars, matchVars,
                   colorInput, clickVars, paintVars>>

NextColor == ColorNode

SpecColor == InitColor /\ [][NextColor]_vars

\* the groups of the list with a non-empty query that match the node
MatchingGroups(node, groups) ==
    {i \in 1..Len(groups) : groups[i].query # <<>> /\ groupMatches(node, groups[i])}

\* the highlight color and the default color of a type under the settings
HighlightColor(st, cssOk) ==
    IF st.useThemeColors /\ cssOk THEN <<"css", "--graph-node-focused">>
    ELSE st.colorHighlight

DefaultColor(type, st, cssOk) ==
    IF st.useThemeColors /\ cssOk
    THEN <<"css", IF type = NodeTypeTag THEN "--graph-tags"
                  ELSE IF type = NodeTypeAttachment THEN "--graph-unresolved"
                  ELSE "--graph-node">>
    ELSE IF type = NodeTypeTag THEN st.colorTag
         ELSE IF type = NodeTypeAttachment THEN st.colorAttachment
         ELSE st.colorNode

\* C17: getNodeColor returns the highlight color for a highlighted node, whatever
\* the groups; otherwise the color of the first group of the list whose non-empty
\* query matches the node; otherwise the default color of the type of the node.
C17_ColorPrecedence ==
    colorResult # NoColor =>
        LET node == colorInput.node
            st   == colorInput.st
            hits == MatchingGroups(node, st.groups)
        IN  IF node.id \in colorInput.highlightedNodes
            THEN colorResult = HighlightColor(st, colorInput.cssOk)
            ELSE IF hits # {}
            THEN colorResult = st.groups[CHOOSE i \in hits : \A j \in hits : i <= j].color
            ELSE colorResult = DefaultColor(node.type, st, colorInput.cssOk)

\* a highlighted node that two groups of different colors match
C17_Witness ==
    /\ colorResult # NoColor
    /\ colorInput.node.id \in colorInput.highlightedNodes
    /\ Cardinality(MatchingGroups(colorInput.node, colorInput.st.groups)) = 2
    /\ colorInput.st.groups[1].color # colorInput.st.groups[2].color
    /\ colorResult = HighlightColor(colorInput.st, colorInput.cssOk)

\* what the suspended cycle c has read so far is what the vault and the settings
\* hold now
CycleSawCurrent(c) ==
    /\ c.allFiles = files
    /\ c.st = settings
    /\ c.tags = fileTags[c.allFiles[c.i].path]
    /\ \A i \in 1..Len(c.read) : c.read[i].tags = fileTags[c.read[i].id]

\* graph shows the node ids and the links of the derivation d
showsDerivation(graph, d) ==
    /\ Ids(graph.nodes) = Ids(d.nodes)
    /\ Range(graph.links) = Range(d.links)

\* the displayed node ids and links are those of the derivation of the vault as it is
GraphIsCurrent == showsDerivation(graphData, CurrentDerivation)

MaxClicks == 3

\* mutant: a click that finds the timer pending leaves it to fire
timeoutAfterSecondClick_Kept(timeout) == timeout

\* (895) clearTimeout(this.clickTimeout); this.clickTimeout = null
timeoutAfterSecondClick(timeout) == NoTimer

\* (898-900) this.clickTimeout = setTimeout(() => {...}, this.CLICK_DELAY)
startTimer(id) == [set |-> TRUE, node |-> id, live |-> TRUE]

\* (903-908) handleNodeDoubleClick opens a tab for a file or an attachment that the
\* vault still holds
opensFile(node, fs) ==
    /\ node.type \in {NodeTypeFile, NodeTypeAttachment}
    /\ node.id \in PathsOf(fs)

\* (924-931) allLinks.forEach from link i on: the ends and the links added
RECURSIVE highlightFrom(_, _, _, _)
highlightFrom(allLinks, i, id, acc) ==
    IF i > Len(allLinks) THEN acc
    ELSE IF allLinks[i].source = id
         THEN highlightFrom(allLinks, i + 1, id,
                            [nodes |-> acc.nodes \cup {allLinks[i].target},
                             links |-> acc.links \cup {i}])
    ELSE IF allLinks[i].target = id
         THEN highlightFrom(allLinks, i + 1, id,
                            [nodes |-> acc.nodes \cup {allLinks[i].source},
                             links |-> acc.links \cup {i}])
    ELSE highlightFrom(allLinks, i + 1, id, acc)

\* mutant: only the links that leave the node are followed
handleNodeSingleClick_SourcesOnly(selected, id, allLinks) ==
    IF selected = id
    THEN [selectedNode |-> NoNode, highlightedNodes |-> {}, highlightedLinks |-> {}]
    ELSE LET out == {i \in 1..Len(allLinks) : allLinks[i].source = id} IN
         [selectedNode |-> id,
          highlightedNodes |-> {id} \cup {allLinks[i].target : i \in out},
          highlightedLinks |-> out]

\* (911-946) handleNodeSingleClick: the selection and the two highlight sets it leaves
handleNodeSingleClick(selected, id, allLinks) ==
    IF selected = id
    THEN [selectedNode |-> NoNode, highlightedNodes |-> {}, highlightedLinks |-> {}]
    ELSE LET hl == highlightFrom(allLinks, 1, id, [nodes |-> {id}, links |-> {}]) IN
         [selectedNode |-> id, highlightedNodes |-> hl.nodes, highlightedLinks |-> hl.links]

\* a displayed graph: the vault with a tagged document, under some resolved links,
\* with tags and attachments shown or not, as the first load swapped it in
InitClick ==
    /\ files = FileUniverse
    /\ fileTags = [p \in DocPaths \cup {Pic.path} |->
                      IF p = DocA.path THEN << <<"X">> >> ELSE <<>>]
    /\ resolvedLinks \in SUBSET Range(LinkOrder)
    /\ hasResolvedLinks = TRUE
    /\ \E showTags \in BOOLEAN, showAttachments \in BOOLEAN :
          settings = [DEFAULT_SETTINGS EXCEPT !.showTags = showTags,
                                              !.showAttachments = showAttachments]
    /\ pc = "click"
    /\ derived = NullData
    /\ isGraphInitialized = TRUE
    /\ isUpdating = FALSE
    /\ LET d == processVaultData(readAll(files, fileTags), resolvedLinks, hasResolvedLinks,
                                 settings)
       IN  graphData = [nodes |-> d.nodes, links |-> d.links]
    /\ messageVisible = FALSE
    /\ animating = TRUE
    /\ cycles = <<>>
    /\ firstLoadTimer = "fired"
    /\ lastEvent = "swapped"
    /\ lastRegime = regimeOf(TRUE, FALSE, FALSE)
    /\ graphHandlers = InitialHandlers
    /\ pendingCalls = 0
    /\ matchInput = NoMatchInput
    /\ matchResult = NoMatchResult
    /\ colorInput = NoColorInput
    /\ colorResult = NoColor
    /\ ClickAtRest
    /\ PaintAtRest

\* (886-901) handleNodeClick(node, event) with event.ctrlKey || event.metaKey or not
HandleNodeClick(node, modifier) ==
    /\ isGraphInitialized
    /\ "onNodeClick" \in graphHandlers
    /\ clickLog.plain + clickLog.modified < MaxClicks
    /\ IF modifier
       THEN \* (889-892) openLinkText(node.id, node.id, 'tab'); return
            /\ clickLog' = [clickLog EXCEPT !.modified = @ + 1, !.clicked = node.id]
            /\ UNCHANGED clickTimeout
       ELSE IF clickTimeout.set
       THEN \* (894-896) the timer is cleared and handleNodeDoubleClick runs
            /\ clickTimeout' = timeoutAfterSecondClick(clickTimeout)
            /\ clickLog' = [clickLog EXCEPT !.plain = @ + 1, !.clicked = node.id,
                                            !.double = @ + 1, !.doubleOn = node.id,
                                            !.opened = IF opensFile(node, files)
                                                       THEN @ + 1 ELSE @]
       ELSE \* (897-901) the timer is started
            /\ clickTimeout' = startTimer(node.id)
            /\ clickLog' = [clickLog EXCEPT !.plain = @ + 1, !.clicked = node.id]
    /\ UNCHANGED <<corpusVars, settings, pc, derived, viewVars, handlerVars, matchVars,
                   colorVars, paintVars, selectedNode, highlightedNodes, highlightedLinks>>

\* (898-900) the timer fires: handleNodeSingleClick(node); this.clickTimeout = null
TimerFires ==
    /\ clickTimeout.set /\ clickTimeout.live
    /\ LET after == handleNodeSingleClick(selectedNode, clickTimeout.node, graphData.links) IN
          /\ selectedNode' = after.selectedNode
          /\ highlightedNodes' = after.highlightedNodes
          /\ highlightedLinks' = after.highlightedLinks
    /\ clickLog' = [clickLog EXCEPT !.single = @ + 1, !.singleOn = clickTimeout.node]
    /\ clickTimeout' = NoTimer
    /\ UNCHANGED <<corpusVars, settings, pc, derived, viewVars, handlerVars, matchVars,
                   colorVars, paintVars>>

\* (948-962) handleNodeHover(node), node null when the pointer leaves
HandleNodeHover(onNode, node) ==
    /\ isGraphInitialized
    /\ "onNodeHover" \in graphHandlers
    /\ highlightedNodes' = IF onNode THEN {node.id} ELSE {}
    /\ highlightedLinks' =
          IF onNode
          THEN {i \in 1..Len(graphData.links) :
                   graphData.links[i].source = node.id \/ graphData.links[i].target = node.id}
          ELSE {}
    /\ <<highlightedNodes', highlightedLinks'>> # <<highlightedNodes, highlightedLinks>>
    /\ UNCHANGED <<corpusVars, settings, pc, derived, viewVars, handlerVars, matchVars,
                   colorVars, paintVars, clickTimeout, selectedNode, clickLog>>

\* (1117-1133) onClose: the timer is cleared, the field keeps its value, the graph
\* is torn down
OnClose ==
    /\ isGraphInitialized
    /\ clickTimeout' = [clickTimeout EXCEPT !.live = FALSE]
    /\ isGraphInitialized' = FALSE
    /\ animating' = FALSE
    /\ graphHandlers' = {}
    /\ UNCHANGED <<corpusVars, settings, pc, derived, isUpdating, graphData, messageVisible,
                   cycles, firstLoadTimer, lastEvent, lastRegime, handlerVars, matchVars,
                   colorVars, paintVars, selectedNode, highlightedNodes, highlightedLinks,
                   clickLog>>

NextClick ==
    \/ \E i \in 1..Len(graphData.nodes), modifier \in BOOLEAN :
          HandleNodeClick(graphData.nodes[i], modifier)
    \/ TimerFires
    \/ \E i \in 1..Len(graphData.nodes) : HandleNodeHover(TRUE, graphData.nodes[i])
    \/ HandleNodeHover(FALSE, EmptyGraph)
    \/ OnClose

SpecClick == InitClick /\ [][NextClick]_vars

\* the displayed node with the given id
displayedNode(id) == CHOOSE n \in Range(graphData.nodes) : n.id = id

\* the step handles a click made without ctrl or meta held
PlainClick == clickLog'.plain = clickLog.plain + 1

\* the step handles a click, with or without ctrl or meta held
AnyClick == clickLog'.plain + clickLog'.modified = clickLog.plain + clickLog.modified + 1

\* the pending timer fires
TimerFired == clickTimeout.set /\ clickTimeout.live /\ ~AnyClick /\ clickTimeout' = NoTimer

\* the step takes no single-click and no double-click action
NoClickAction ==
    /\ clickLog'.single = clickLog.single /\ clickLog'.double = clickLog.double
    /\ clickLog'.opened = clickLog.opened
    /\ UNCHANGED <<selectedNode, highlightedNodes, highlightedLinks>>

\* the step takes one double-click action on the node clicked and no single-click
\* action: a tab is opened if the node is a file or an attachment
OneDoubleClickAction ==
    /\ clickLog'.double = clickLog.double + 1
    /\ clickLog'.doubleOn = clickLog'.clicked
    /\ clickLog'.opened = IF displayedNode(clickLog'.clicked).type
                                \in {NodeTypeFile, NodeTypeAttachment}
                          THEN clickLog.opened + 1 ELSE clickLog.opened
    /\ clickLog'.single = clickLog.single
    /\ UNCHANGED <<selectedNode, highlightedNodes, highlightedLinks>>

\* the step takes one single-click action on the node the timer held and no
\* double-click action
OneSingleClickAction ==
    /\ clickLog'.single = clickLog.single + 1
    /\ clickLog'.singleOn = clickTimeout.node
    /\ clickLog'.double = clickLog.double /\ clickLog'.opened = clickLog.opened

\* every click counted is accounted for: by a single-click action, by half a
\* double-click action, or by the pending timer
ClicksAccounted(clicks) ==
    clicks = clickLog.single + 2 * clickLog.double + IF clickTimeout.set THEN 1 ELSE 0

\* what a step does to the timer and which action it takes, isClick telling the
\* steps that handle a click
ClickSteps(isClick) ==
    /\ (isClick /\ ~clickTimeout.set) =>
          (clickTimeout' = startTimer(clickLog'.clicked) /\ NoClickAction)
    /\ (isClick /\ clickTimeout.set) => (clickTimeout' = NoTimer /\ OneDoubleClickAction)
    /\ TimerFired => OneSingleClickAction
    /\ (clickLog'.single # clickLog.single) => TimerFired

incidentLinks(id) ==
    {i \in 1..Len(graphData.links) :
        graphData.links[i].source = id \/ graphData.links[i].target = id}

\* the nodes a displayed link joins to the node
joinedNodes(id) ==
    {graphData.links[i].target : i \in {j \in 1..Len(graphData.links) :
                                           graphData.links[j].source = id}}
    \cup {graphData.links[i].source : i \in {j \in 1..Len(graphData.links) :
                                                graphData.links[j].target = id}}

\* C20: a single-click action on a node that is not the selected one selects it,
\* highlights exactly the node and the nodes a displayed link joins to it, and
\* highlights exactly the displayed links with an end at it; a single-click action on
\* the selected node clears the selection and both highlight sets.
C20_SingleClickHighlight ==
    [][TimerFired =>
         IF selectedNode # clickTimeout.node
         THEN /\ selectedNode' = clickTimeout.node
              /\ highlightedNodes' = {clickTimeout.node} \cup joinedNodes(clickTimeout.node)
              /\ highlightedLinks' = incidentLinks(clickTimeout.node)
         ELSE /\ selectedNode' = NoNode
              /\ highlightedNodes' = {}
              /\ highlightedLinks' = {}]_vars

\* the first document was selected by a single click: the document that links to it,
\* the attachment it links to and both links are highlighted
C20_Witness ==
    /\ clickLog.single >= 1 /\ clickLog.singleOn = DocA.path
    /\ selectedNode = DocA.path
    /\ highlightedNodes = {DocA.path, DocB.path, Pic.path}
    /\ \E i \in highlightedLinks : graphData.links[i].target = DocA.path
    /\ \E i \in highlightedLinks : graphData.links[i].source = DocA.path

\* ------------------------------------------ further claims on the derivation

\* the positions in ls of the links from source to target
linksBetween(ls, source, target) ==
    {i \in 1..Len(ls) : ls[i].source = source /\ ls[i].target = target}

\* C21: a document and a tag of its tag list that are both in the derived graph are
\* joined by exactly one derived link, however often the tag occurs in the list.
C21_TagLinksDeduplicated ==
    Derived =>
        \A d \in DocsOf(files) : \A t \in Range(fileTags[d.path]) :
            (d.path \in Ids(derived.nodes) /\ tagId(t) \in Ids(derived.nodes)) =>
                Cardinality(linksBetween(derived.links, d.path, tagId(t))) = 1

\* the ids of the Tag nodes of a node list
TagNodeIds(nodes) == {n.id : n \in {m \in Range(nodes) : m.type = NodeTypeTag}}

\* C22: a path rule matches no Tag node; a path rule on its own keeps no Tag node
\* when it is not inverted and removes no Tag node when it is inverted.
C22_PathRuleSkipsTagNodes ==
    matchResult.done =>
        /\ \A i \in 1..Len(matchInput.nodes), j \in 1..Len(matchInput.filters) :
              (matchInput.nodes[i].type = NodeTypeTag /\ matchInput.filters[j].type = "path")
                  => ~matchResult.matches[i][j]
        /\ (/\ Len(matchInput.filters) = 1
            /\ matchInput.filters[1].type = "path"
            /\ ~BlankRule(matchInput.filters[1])) =>
              IF matchInput.filters[1].inverted
              THEN TagNodeIds(matchInput.nodes) \subseteq Ids(matchResult.kept)
              ELSE TagNodeIds(matchResult.kept) = {}

\* ------------------------------------- seeding of new nodes alone (526-561)

\* the files of fs that keep[i] retains, in order
RECURSIVE keepFiles(_, _)
keepFiles(fs, keep) ==
    IF fs = <<>> THEN <<>>
    ELSE (IF Head(keep) THEN <<Head(fs)>> ELSE <<>>) \o keepFiles(Tail(fs), Tail(keep))

\* a graph as an earlier cycle displayed it: the derivation of the files the vault
\* held then, every node where tick t of the engine put it, or, with t = 0, still
\* without a position
earlierGraph(oldFiles, tags, rl, st, t) ==
    LET d == processVaultData(readAll(oldFiles, tags),
                              {l \in rl : l[1] \in PathsOf(oldFiles) /\ l[2] \in PathsOf(oldFiles)},
                              TRUE, st)
    IN  [nodes |-> [i \in 1..Len(d.nodes) |->
                       IF t = 0 THEN d.nodes[i] ELSE withPosition(d.nodes[i], TickPosition(t, i))],
         links |-> d.links]

\* the view at rest over the graph of an earlier vault, the vault now holding every
\* file of the universe
InitSeed ==
    /\ files = FileUniverse
    /\ fileTags = [p \in DocPaths \cup {Pic.path} |->
                      IF p = DocA.path THEN << <<"X">> >> ELSE <<>>]
    /\ resolvedLinks \in SUBSET Range(LinkOrder)
    /\ hasResolvedLinks = TRUE
    /\ \E showTags \in BOOLEAN, showAttachments \in BOOLEAN :
          settings = [DEFAULT_SETTINGS EXCEPT !.showTags = showTags,
                                              !.showAttachments = showAttachments]
    /\ pc = "seed"
    /\ derived = NullData
    /\ isGraphInitialized = TRUE
    /\ isUpdating = FALSE
    /\ \E keep \in [1..Len(FileUniverse) -> BOOLEAN], t \in {0} \cup TickUniverse :
          /\ graphData = earlierGraph(keepFiles(FileUniverse, keep), fileTags, resolvedLinks,
                                      settings, t)
          /\ graphData.nodes # <<>>
    /\ messageVisible = FALSE
    /\ animating = TRUE
    /\ cycles = <<>>
    /\ firstLoadTimer = "fired"
    /\ lastEvent = "swapped"
    /\ lastRegime = regimeOf(TRUE, FALSE, FALSE)
    /\ graphHandlers = InitialHandlers
    /\ pendingCalls = 0
    /\ matchInput = NoMatchInput
    /\ matchResult = NoMatchResult
    /\ colorInput = NoColorInput
    /\ colorResult = NoColor
    /\ ClickAtRest
    /\ PaintAtRest

NextSeed ==
    \/ TriggerUpdate
    \/ \E k \in 1..Len(cycles) : ReadDone(k)

SpecSeed == InitSeed /\ [][NextSeed]_vars

\* the least element of a nonempty set of numbers
Least(S) == CHOOSE j \in S : \A k \in S : j <= k

\* the links of ls that join id to a node with a cached position
cachedNeighborLinks(ls, id, cache) ==
    {j \in Incident(ls, id) : OtherEnd(ls[j], id) \in DOMAIN cache}

\* p lies within 1 unit of q on each axis, strictly so or not
withinOne(p, q, strictly) ==
    \A axis \in {"x", "y", "z"} :
        LET off == p[axis] - q[axis] IN
        IF strictly THEN -1 < off /\ off < 1 ELSE -1 <= off /\ off <= 1

\* the step swaps in the graph of a carry-over cycle, and in it: a node with a cached
\* position has exactly that position; a node without one has a position exactly
\* when some link joins it to a node with a cached position, and then sits within 1
\* unit of the cached position of the other end of the first such link
SeedingRule(strictly) ==
    (CycleEnds /\ lastEvent' = "swapped" /\ cycles[1].useCache) =>
        LET cache == cycles[1].nodePositions
            ls == graphData'.links
        IN  \A i \in 1..Len(graphData'.nodes) :
                LET n == graphData'.nodes[i]
                    joined == cachedNeighborLinks(ls, n.id, cache)
                IN  IF n.id \in DOMAIN cache
                    THEN hasPosition(n) /\ positionOf(n) = cache[n.id]
                    ELSE IF joined # {}
                    THEN /\ hasPosition(n)
                         /\ withinOne(positionOf(n),
                                      cache[OtherEnd(ls[Least(joined)], n.id)], strictly)
                    ELSE ~hasPosition(n)

\* C23 as stated: the offset of a seeded node is less than 1 unit on each axis.
C23_Original == [][SeedingRule(TRUE)]_vars

\* C23: in a carry-over cycle a node without a cached position gets a position only
\* if a link of the new graph joins it to a node with a cached position; it is then
\* placed at the first such neighbour in link order, offset by at most 1 unit on each
\* axis. A new node whose neighbours are all new is left without x, y, z, even if a
\* neighbour was seeded earlier in the pass, and a node with a cached position keeps
\* exactly that position.
C23_SeedingOfNewNodes == [][SeedingRule(FALSE)]_vars

\* the first document was seeded next to the second one, and the tag of the first
\* document, joined to it alone, was left without a position
C23_Witness ==
    /\ lastEvent = "swapped" /\ pc = "seed"
    /\ \E i, j \in 1..Len(graphData.nodes) :
          /\ graphData.nodes[i].id = DocA.path
          /\ hasPosition(graphData.nodes[i])
          /\ \A t \in TickUniverse, k \in 1..4 : positionOf(graphData.nodes[i]) # TickPosition(t, k)
          /\ graphData.nodes[j].id = tagId(<<"X">>)
          /\ ~hasPosition(graphData.nodes[j])
          /\ Incident(graphData.links, tagId(<<"X">>)) # {}
    /\ \E i \in 1..Len(graphData.nodes) :
          /\ graphData.nodes[i].id = DocB.path
          /\ \E t \in TickUniverse, k \in 1..4 : positionOf(graphData.nodes[i]) = TickPosition(t, k)

\* the ids of the nodes of the given type
IdsOfType(nodes, type) == {n.id : n \in {m \in Range(nodes) : m.type = type}}

\* C24: after the visibility stage, and in the result, there is no Tag node unless
\* showTags is on and no Attachment node unless showAttachments is on, and every
\* Document node that reached the stage has passed it.
C24_VisibilityStage ==
    Derived =>
        /\ ~settings.showTags =>
              /\ IdsOfType(derived.nodesToShow, NodeTypeTag) = {}
              /\ IdsOfType(derived.nodes, NodeTypeTag) = {}
        /\ ~settings.showAttachments =>
              /\ IdsOfType(derived.nodesToShow, NodeTypeAttachment) = {}
              /\ IdsOfType(derived.nodes, NodeTypeAttachment) = {}
        /\ IdsOfType(derived.nodesToShow, NodeTypeFile) = IdsOfType(derived.finalNodes, NodeTypeFile)
        /\ settings.showTags =>
              IdsOfType(derived.nodesToShow, NodeTypeTag) = IdsOfType(derived.finalNodes, NodeTypeTag)
        /\ settings.showAttachments =>
              IdsOfType(derived.nodesToShow, NodeTypeAttachment)
                  = IdsOfType(derived.finalNodes, NodeTypeAttachment)

\* with tags shown and attachments hidden, the stage dropped an attachment and kept
\* two documents and a tag
C24_Witness ==
    /\ Derived /\ settings.showTags /\ ~settings.showAttachments
    /\ IdsOfType(derived.finalNodes, NodeTypeAttachment) # {}
    /\ IdsOfType(derived.nodesToShow, NodeTypeAttachment) = {}
    /\ IdsOfType(derived.nodesToShow, NodeTypeFile) = DocPaths
    /\ IdsOfType(derived.nodesToShow, NodeTypeTag) # {}

\* ------------------------------------ selection, highlight and the cycles

\* C26: a selected node is highlighted, and a single-click action on a node that is
\* not highlighted selects it.
C26_SelectionHighlighted ==
    /\ [](selectedNode # NoNode => selectedNode \in highlightedNodes)
    /\ [][(TimerFired /\ clickTimeout.node \notin highlightedNodes) =>
            selectedNode' = clickTimeout.node]_vars

\* C27: a node of the new graph that is displayed with a position at the moment of
\* the swap of a carry-over cycle is given exactly that position.
C27_PositionAtSwap ==
    [][(CycleEnds /\ lastEvent' = "swapped" /\ cycles[1].useCache) =>
          \A i \in 1..Len(graphData'.nodes), j \in 1..Len(graphData.nodes) :
              (graphData'.nodes[i].id = graphData.nodes[j].id /\ hasPosition(graphData.nodes[j]))
                  => /\ hasPosition(graphData'.nodes[i])
                     /\ positionOf(graphData'.nodes[i]) = positionOf(graphData.nodes[j])]_vars

\* the timer of initializeGraph fires and makes the first-load call
FirstLoadCall == firstLoadTimer = "pending" /\ firstLoadTimer' = "fired"

\* the regime of the hot branch
HotRegime == [set |-> TRUE, alphaDecay |-> HotAlphaDecay, velocityDecay |-> HotVelocityDecay,
              reheated |-> TRUE]

\* C28: a cycle that populates the graph before the first-load call is made applies
\* the hot regime, the first-load call is not rejected, and the cycle it starts
\* applies the hot regime when it populates the graph.
C28_FirstCycleHot ==
    /\ [][(CycleEnds /\ lastEvent' = "swapped" /\ firstLoadTimer = "pending") =>
            lastRegime' = HotRegime]_vars
    /\ [][FirstLoadCall => lastEvent' # "rejected"]_vars
    /\ [][(CycleEnds /\ lastEvent' = "swapped" /\ cycles[1].isFirstLoad) =>
            lastRegime' = HotRegime]_vars

\* clicks and hovers on a displayed graph while settings change and cycles run: two
\* linked documents, the first one tagged, tags shown
InitStale ==
    /\ InitClick
    /\ resolvedLinks = {<<DocA.path, DocB.path>>}
    /\ settings.showTags /\ ~settings.showAttachments

NextStale ==
    \/ \E i \in 1..Len(graphData.nodes), modifier \in BOOLEAN :
          HandleNodeClick(graphData.nodes[i], modifier)
    \/ TimerFires
    \/ \E i \in 1..Len(graphData.nodes) : HandleNodeHover(TRUE, graphData.nodes[i])
    \/ HandleNodeHover(FALSE, EmptyGraph)
    \/ ChangeSetting
    \/ TriggerUpdate
    \/ \E k \in 1..Len(cycles) : ReadDone(k)

SpecStale == InitStale /\ [][NextStale]_vars

\* C30: when a cycle ends, every highlighted id and the selected id, if any, are ids
\* of nodes of the graph now displayed, and every highlighted link is a link object
\* of that graph. The links of a graph just swapped in are objects made by that
\* derivation, so none of them can be in highlightedLinks: the set must be empty.
C30_HighlightRefersToDisplayed ==
    [][(CycleEnds /\ lastEvent' \in {"swapped", "empty"}) =>
          /\ highlightedNodes' \subseteq Ids(graphData'.nodes)
          /\ selectedNode' \in {NoNode} \cup Ids(graphData'.nodes)
          /\ highlightedLinks' = {}]_vars

\* --------------------------------- the handlers of the graph instance

\* (476-485) the handlers the view registers besides onNodeClick
LaterHandlers == {"onNodeHover", "linkCurvature", "onEngineTick"}

\* C29: whatever cycles have run, the empty path and its new graph instance
\* included, the graph instance in use has the node-hover, link-curvature and
\* engine-tick handlers registered at initialization.
C29_HandlersKept ==
    /\ [](isGraphInitialized => LaterHandlers \subseteq graphHandlers)
    /\ [][CycleEnds => LaterHandlers \subseteq graphHandlers']_vars

\* ------------------------------ the colors of the meshes (610-635, 747-797)

\* a group color the renderer cannot parse
BadColor == "not-a-color"

\* (768) the color the material is created with
MaterialColor == "#ffffff"

\* material.color.set(color) can take the color
parses(color) == color # BadColor

\* the groups of the settings: on the tag X and the document that carries it, on
\* the picture
PaintGroupUniverse ==
    [query : { <<"t", "a", "g", ":", "#", "X">>,
               <<"f", "i", "l", "e", ":", "*", ".", "p", "n", "g">> },
     color : {"red", BadColor}]

\* the node of the displayed graph with the id
nodeWithId(nodes, id) == nodes[CHOOSE i \in 1..Len(nodes) : nodes[i].id = id]

\* (767-780) the color of the material createNodeObject makes for the node; set
\* on a color it cannot parse either throws or leaves the material as it is
colorOfNewMesh(node, highlighted, st, throws) ==
    LET color == getNodeColor(node, highlighted, st, FALSE) IN
    IF parses(color) THEN color
    ELSE IF throws THEN st.colorNode
    ELSE MaterialColor

\* (619-629) the body of the forEach of updateColors on a node that has a mesh:
\* the catch logs and the material keeps its color
colorOfOldMesh(node, old, highlighted, st) ==
    LET color == getNodeColor(node, highlighted, st, FALSE) IN
    IF parses(color) THEN color ELSE old

\* (618-630) the forEach over the nodes of the graph: those without a mesh are
\* skipped
meshesAfterUpdate(meshes, nodes, highlighted, st) ==
    [id \in DOMAIN meshes |->
        IF id \in Ids(nodes)
        THEN colorOfOldMesh(nodeWithId(nodes, id), meshes[id], highlighted, st)
        ELSE meshes[id]]

\* the colors getNodeColor gives to the nodes with these ids
resolvedColors(ids, nodes, highlighted, st) ==
    [id \in ids |-> getNodeColor(nodeWithId(nodes, id), highlighted, st, FALSE)]

\* (623-627, 774-779) the nodes whose color.set ended in the catch block
caughtFor(resolved, throws) ==
    {id \in DOMAIN resolved : throws /\ ~parses(resolved[id])}

\* what a run of createNodeObject or updateColors over these nodes leaves in the log
paintLogOf(op, ids, nodes, highlighted, st, throws) ==
    LET resolved == resolvedColors(ids, nodes, highlighted, st) IN
    [op |-> op, resolved |-> resolved, threw |-> caughtFor(resolved, throws)]

\* a displayed graph of documents, a picture and the tag X, own colors in use,
\* no mesh made yet
InitPaint ==
    /\ files = FileUniverse
    /\ fileTags = [p \in DocPaths \cup {Pic.path} |->
                      IF p = DocA.path THEN << <<"X">> >> ELSE <<>>]
    /\ resolvedLinks = {}
    /\ hasResolvedLinks = TRUE
    /\ settings = [DEFAULT_SETTINGS EXCEPT !.showTags = TRUE, !.showAttachments = TRUE]
    /\ pc = "paint"
    /\ derived = NullData
    /\ isGraphInitialized = TRUE
    /\ isUpdating = FALSE
    /\ LET d == processVaultData(readAll(files, fileTags), resolvedLinks, hasResolvedLinks,
                                 settings)
       IN  graphData = [nodes |-> d.nodes, links |-> d.links]
    /\ messageVisible = FALSE
    /\ animating = TRUE
    /\ cycles = <<>>
    /\ firstLoadTimer = "fired"
    /\ lastEvent = "swapped"
    /\ lastRegime = regimeOf(TRUE, FALSE, FALSE)
    /\ graphHandlers = InitialHandlers
    /\ pendingCalls = 0
    /\ matchInput = NoMatchInput
    /\ matchResult = NoMatchResult
    /\ colorInput = NoColorInput
    /\ colorResult = NoColor
    /\ ClickAtRest
    /\ nodeMeshes = NoMeshes
    /\ colorSettings = ColorSettings(FALSE, <<>>)
    /\ paintLog = NoPaintLog

\* (747-797) createNodeObject(node), called by the graph for a node it displays
CreateNodeObject(node, throws) ==
    /\ isGraphInitialized
    /\ nodeMeshes' =
          [id \in DOMAIN nodeMeshes \cup {node.id} |->
              IF id = node.id
              THEN colorOfNewMesh(node, highlightedNodes, colorSettings, throws)
              ELSE nodeMeshes[id]]
    /\ paintLog' = paintLogOf("create", {node.id}, graphData.nodes, highlightedNodes,
                               colorSettings, throws)
    /\ UNCHANGED <<corpusVars, settings, pc, derived, viewVars, handlerVars, matchVars,
                   colorVars, clickVars, colorSettings>>

\* (610-635) updateColors()
UpdateColors(throws) ==
    /\ isGraphInitialized
    /\ nodeMeshes' = meshesAfterUpdate(nodeMeshes, graphData.nodes, highlightedNodes,
                                       colorSettings)
    /\ paintLog' = paintLogOf("update", DOMAIN nodeMeshes \cap Ids(graphData.nodes),
                               graphData.nodes, highlightedNodes, colorSettings, throws)
    /\ UNCHANGED <<corpusVars, settings, pc, derived, viewVars, handlerVars, matchVars,
                   colorVars, clickVars, colorSettings>>

\* (settings.ts 108-134, 11-30) a group is edited or removed: the settings change
\* and triggerUpdate({ updateDisplay: true }) calls updateDisplay and updateColors
GroupsChanged(groups, throws) ==
    /\ isGraphInitialized
    /\ groups # colorSettings.groups
    /\ colorSettings' = [colorSettings EXCEPT !.groups = groups]
    /\ nodeMeshes' = meshesAfterUpdate(nodeMeshes, graphData.nodes, highlightedNodes,
                                       colorSettings')
    /\ paintLog' = paintLogOf("update", DOMAIN nodeMeshes \cap Ids(graphData.nodes),
                               graphData.nodes, highlightedNodes, colorSettings', throws)
    /\ UNCHANGED <<corpusVars, settings, pc, derived, viewVars, handlerVars, matchVars,
                   colorVars, clickVars>>

NextPaint ==
    \/ \E i \in 1..Len(graphData.nodes), throws \in BOOLEAN :
          CreateNodeObject(graphData.nodes[i], throws)
    \/ \E throws \in BOOLEAN : UpdateColors(throws)
    \/ \E groups \in SeqsUpTo(PaintGroupUniverse, MaxGroups), throws \in BOOLEAN :
          GroupsChanged(groups, throws)

SpecPaint == InitPaint /\ [][NextPaint]_vars

\* C25: when the renderer cannot parse the color resolved for a node and the
\* failure is caught, it stays with that node: its mesh gets the default color of
\* its type (tag, attachment or document), and every node whose color parses gets
\* that color, when the node object is created and when updateColors refreshes
\* the meshes.
C25_BadColorFallsBackToType ==
    paintLog.op \in {"create", "update"} =>
        \A id \in DOMAIN paintLog.resolved :
            /\ parses(paintLog.resolved[id]) => nodeMeshes[id] = paintLog.resolved[id]
            /\ id \in paintLog.threw =>
                  nodeMeshes[id] = typeColor(nodeWithId(graphData.nodes, id),
                                             colorSettings, FALSE)

====
